---- MODULE Spec2Model ----
(***************************************************************************)
(* Model of libpussy's allocators (src/src/allocator_pet.c):               *)
(*   - the bitmap page allocator ("pet" allocator): bitmap primitives,     *)
(*     per-page operations, the superblock directory, the OS page          *)
(*     wrappers and the allocate / release / reallocate facade;            *)
(*   - the stdlib adaptor over malloc / realloc / free.                    *)
(*                                                                         *)
(* Scaling.  The allocator is parametric in the OS page size (queried at   *)
(* run time) and in WORD_WIDTH (32 or 64 in the source).  The model keeps  *)
(* the code's arithmetic and shrinks both: a page holds WordsPerPage words *)
(* of WORD_WIDTH bits, one bit per unit of UNIT_SIZE bytes.  With          *)
(* WORD_WIDTH = 4 and WordsPerPage = 2 a page has 8 units, 2 of them the   *)
(* header (the source's own formula) and 6 data units.                     *)
(*                                                                         *)
(* Addresses are byte addresses.  Page p (1..NumPages) starts at           *)
(* p * sys_page_size; address 0 is nullptr.  The contents of user blocks   *)
(* are not part of the state; where the code reads user bytes as allocator *)
(* metadata the value read is a nondeterministic input.                    *)
(***************************************************************************)
EXTENDS Integers, Sequences, FiniteSets, TLC

\* ---------------------------------------------------------------- parameters

UNIT_SIZE == 16

\* Word width in bits (64 or 32 in the source, scaled down here).
WORD_WIDTH == 4

\* Bitmap words per page: sys_page_size / UNIT_SIZE / WORD_WIDTH.
WordsPerPage == 2

\* Pages of address space the OS can hand out.
NumPages == 3

\* offsetof(BmPageHeader, bitmap): the three pointers list, next, prev.
HEADER_OFFSETOF_BITMAP == 24

\* Limit passed by find_free_block to count_nonzero_bits (any value above
\* units_per_page behaves alike; kept inside TLC's integer range).
UINT_MAX == 2147483647

units_per_page == WordsPerPage * WORD_WIDTH

sys_page_size == units_per_page * UNIT_SIZE

bm_page_header_size_in_units ==
    (HEADER_OFFSETOF_BITMAP + (units_per_page \div 8) + UNIT_SIZE - 1) \div UNIT_SIZE

max_data_units == units_per_page - bm_page_header_size_in_units

NULL == 0

\* The value of a `list` field that points at no superblock slot.
NOLIST == -1

\* A `list` value read from user bytes that happens to point into writable
\* memory outside the allocator's own structures.
WILD == -2

Pages == 1..NumPages

Slots == 0..(units_per_page - 1)

Min(a, b) == IF a < b THEN a ELSE b

\* F applied to the value of v, v being evaluated once (a local variable
\* of the code that is assigned once and read several times).
Let(v, F(_)) == CHOOSE y \in { F(x) : x \in {v} } : TRUE

\* ---------------------------------------------------------------- alignment

align_unsigned(n, alignment) ==
    IF alignment > 1
      THEN ((n + alignment - 1) \div alignment) * alignment
      ELSE n

align_unsigned_to_page(n) == align_unsigned(n, sys_page_size)

bytes_to_units(nbytes) == align_unsigned(nbytes, UNIT_SIZE) \div UNIT_SIZE

PageAddr(p) == p * sys_page_size

bm_page_from_addr(addr) == (addr \div sys_page_size) * sys_page_size

PageOf(addr) == addr \div sys_page_size

ptrdiff_to_units(addr, bm_page) == (addr - bm_page) \div UNIT_SIZE

\* ---------------------------------------------------------------- bitmap primitives
\* A bitmap is a function 0..units_per_page-1 -> {0, 1}; word i holds the
\* bits i*WORD_WIDTH .. i*WORD_WIDTH + WORD_WIDTH - 1, least significant first.

EmptyBitmap == [i \in Slots |-> 0]

\* The word holding bit `from`, shifted right to drop the bits below `from`
\* (and inverted first when inv = 1): WordRest is "w != 0" and
\* count_trailing_zeros its trailing zero count.
WordEnd(from) == ((from \div WORD_WIDTH) + 1) * WORD_WIDTH

WordRest(bm, from, inv) == \E i \in from..(WordEnd(from) - 1) : bm[i] # inv

count_trailing_zeros(bm, from, inv) ==
    (CHOOSE i \in from..(WordEnd(from) - 1) :
        /\ bm[i] # inv
        /\ \A j \in from..(i - 1) : bm[j] = inv) - from

\* The loop over whole words of count_zero_bits / count_nonzero_bits.
RECURSIVE CountWords(_, _, _, _, _)
CountWords(bm, offset, count, limit, inv) ==
    IF offset < units_per_page /\ count < limit
      THEN IF WordRest(bm, offset, inv)
             THEN count + count_trailing_zeros(bm, offset, inv)
             ELSE Let(offset + WORD_WIDTH, LAMBDA o :
                  Let(count + WORD_WIDTH, LAMBDA c : CountWords(bm, o, c, limit, inv)))
      ELSE count

\* A faulty CountBits without the shift by bit_index: the count starts at
\* bit 0 of the word of offset.
CountBits_no_shift(bm, offset, limit, inv) ==
    CountWords(bm, offset - (offset % WORD_WIDTH), 0, limit, inv)

CountBits(bm, offset, limit, inv) ==
    LET bit_index == offset % WORD_WIDTH IN
    IF bit_index # 0
      THEN IF WordRest(bm, offset, inv)
             THEN count_trailing_zeros(bm, offset, inv)
             ELSE CountWords(bm, offset + (WORD_WIDTH - bit_index),
                             WORD_WIDTH - bit_index, limit, inv)
      ELSE CountWords(bm, offset, 0, limit, inv)

count_zero_bits(bm, offset, limit) == CountBits(bm, offset, limit, 0)

count_nonzero_bits(bm, offset, limit) == CountBits(bm, offset, limit, 1)

\* Write value v to bits a .. a+n-1.
WriteRun(bm, a, n, v) ==
    [i \in DOMAIN bm |-> IF a <= i /\ i < a + n THEN v ELSE bm[i]]

\* The three phases of set_bits / clear_bits: the bits up to the next word
\* boundary, the whole words, the ending bits.
EditBits(bm, offset, length, v) ==
    LET bit_index == offset % WORD_WIDTH
        num_bits  == IF bit_index = 0 THEN 0
                     ELSE Min(length, WORD_WIDTH - bit_index)
        nwords    == (length - num_bits) \div WORD_WIDTH
        length2   == (length - num_bits) - nwords * WORD_WIDTH
    IN  WriteRun(WriteRun(WriteRun(bm, offset, num_bits, v),
                          offset + num_bits, nwords * WORD_WIDTH, v),
                 offset + num_bits + nwords * WORD_WIDTH, length2, v)

set_bits(bm, offset, length) == EditBits(bm, offset, length, 1)

\* A faulty clear_bits that leaves the last bit of the run set.
clear_bits_short(bm, offset, length) == EditBits(bm, offset, length - 1, 0)

\* A faulty clear_bits whose first phase clears its word from bit 0.
clear_bits_from_word_start(bm, offset, length) ==
    EditBits(bm, offset - (offset % WORD_WIDTH), length + (offset % WORD_WIDTH), 0)

clear_bits(bm, offset, length) == EditBits(bm, offset, length, 0)

\* ---------------------------------------------------------------- per-page scans

RECURSIVE FindFreeFrom(_, _, _)
FindFreeFrom(bm, block_size, offset) ==
    IF offset < units_per_page
      THEN Let(count_zero_bits(bm, offset, block_size), LAMBDA length :
           IF length >= block_size
             THEN offset
             ELSE Let(offset + length + count_nonzero_bits(bm, offset + length, UINT_MAX),
                      LAMBDA o : FindFreeFrom(bm, block_size, o)))
      ELSE 0

\* A faulty find_free_block that counts the offset from the start of the
\* data area instead of the start of the page.
find_free_block_data_relative(bm, block_size) ==
    Let(FindFreeFrom(bm, block_size, bm_page_header_size_in_units), LAMBDA o :
        IF o = 0 THEN 0 ELSE o - bm_page_header_size_in_units)

find_free_block(bm, block_size) ==
    FindFreeFrom(bm, block_size, bm_page_header_size_in_units)

RECURSIVE LongestFrom(_, _, _, _)
LongestFrom(bm, offset, n, lfb) ==
    IF n # 0
      THEN Let(count_zero_bits(bm, offset, n), LAMBDA length :
           Let(count_nonzero_bits(bm, offset + length, n - length), LAMBDA length2 :
           Let(offset + length + length2, LAMBDA o :
           Let(n - length - length2, LAMBDA m :
               LongestFrom(bm, o, m, IF length > lfb THEN length ELSE lfb)))))
      ELSE lfb

\* A faulty find_longest_free_block that stops after the first free run.
find_longest_free_block_first_run(bm) ==
    Min(count_zero_bits(bm, bm_page_header_size_in_units, max_data_units),
        max_data_units)

find_longest_free_block(bm) ==
    LongestFrom(bm, bm_page_header_size_in_units, max_data_units, 0)

\* ---------------------------------------------------------------- state

VARIABLES
    kind,              \* page -> "free" (unmapped), "bm" (mapped by bm_allocate),
                       \*         "large" (part of a direct mapping)
    bitmap,            \* page -> BmPageHeader.bitmap
    list,              \* page -> BmPageHeader.list, as an index into superblock
    next,              \* page -> BmPageHeader.next
    prev,              \* page -> BmPageHeader.prev
    superblock,        \* longest free block -> first page of the bucket, or NULL
    num_bm_pages,      \* the atomic page counter
    blocks_allocated,  \* stats.blocks_allocated
    lock,              \* owner of the mutex `lock`, or NULL
    terminated,        \* the process was aborted or killed by a fault
    blocks,            \* bag of the blocks the callers hold: [addr, nbytes] -> count
    last,              \* arguments and results of the latest interface call
    pc,                \* thread -> position inside its interface call
    loc,               \* thread -> local variables of its interface call
    std,               \* the stdlib adaptor: live blocks of the host heap, its
                       \* counter, the blocks its callers hold, its latest call
    mem,               \* the bytes of the pages (followed in SpecContent only)
    dbg,               \* the debug adaptor: its regions with their red zones,
                       \* its counter, its latest call
    event              \* one Event: its flag, the owner of its mutex, the threads
                       \* blocked on its condition variable, and each thread's
                       \* position in set_event, clear_event or wait_event

vars == << kind, bitmap, list, next, prev, superblock, num_bm_pages,
           blocks_allocated, lock, terminated, blocks, last, pc, loc, std, mem, dbg, event >>

\* Width of the atomic counters (size_t in the source, scaled down).
SIZE_WIDTH == 16

SIZE_MOD == 2 ^ SIZE_WIDTH

atomic_fetch_add(x, n) == (x + n) % SIZE_MOD

atomic_fetch_sub(x, n) == (x - n + SIZE_MOD) % SIZE_MOD

\* The allocator's memory as one value; the operators below map such a
\* value to the value after the code has run.
Heap ==
    [kind |-> kind, bitmap |-> bitmap, list |-> list, next |-> next,
     prev |-> prev, superblock |-> superblock, num_bm_pages |-> num_bm_pages,
     blocks_allocated |-> blocks_allocated, lock |-> lock,
     terminated |-> terminated]

SetHeap(h) ==
    /\ kind' = h.kind
    /\ bitmap' = h.bitmap
    /\ list' = h.list
    /\ next' = h.next
    /\ prev' = h.prev
    /\ superblock' = h.superblock
    /\ num_bm_pages' = h.num_bm_pages
    /\ blocks_allocated' = h.blocks_allocated
    /\ lock' = h.lock
    /\ terminated' = h.terminated

\* abort(), or a fault on an access through nullptr or to an unmapped page.
Crash(h) == [h EXCEPT !.terminated = TRUE]

Mapped(h, p) == p \in Pages /\ h.kind[p] # "free"

\* ---------------------------------------------------------------- OS pages

\* The pages of the byte range [addr, addr + size).
RangePages(addr, size) ==
    { p \in Pages : addr <= PageAddr(p) /\ PageAddr(p) < addr + size }

RangeFree(h, at, size) ==
    /\ at \in Pages
    /\ at + (size \div sys_page_size) - 1 <= NumPages
    /\ \A p \in RangePages(PageAddr(at), size) : h.kind[p] = "free"

\* The kernel's choice of address: the lowest range that fits, or NULL.
LowestFree(h, size) ==
    IF \E at \in Pages : RangeFree(h, at, size)
      THEN CHOOSE at \in Pages :
             /\ RangeFree(h, at, size)
             /\ \A q \in 1..(at - 1) : ~RangeFree(h, q, size)
      ELSE NULL

\* Answers of the OS to a mapping request.
REFUSE == 0

PLACE == 1

IN_PLACE == 2

\* Anonymous pages come zero-filled: list and the links are nullptr.
MapAt(h, at, size, k) ==
    LET R == RangePages(PageAddr(at), size) IN
    [h EXCEPT !.kind   = [p \in Pages |-> IF p \in R THEN k ELSE @[p]],
              !.bitmap = [p \in Pages |-> IF p \in R THEN EmptyBitmap ELSE @[p]],
              !.list   = [p \in Pages |-> IF p \in R THEN NOLIST ELSE @[p]],
              !.next   = [p \in Pages |-> IF p \in R THEN NULL ELSE @[p]],
              !.prev   = [p \in Pages |-> IF p \in R THEN NULL ELSE @[p]]]

\* mmap(nullptr, size, ...): the result is [h, addr], addr = NULL on failure.
call_mmap(h, size, os, k) ==
    Let(LowestFree(h, size), LAMBDA at :
        IF os = REFUSE \/ at = NULL
          THEN [h |-> h, addr |-> NULL]
          ELSE [h |-> MapAt(h, at, size, k), addr |-> PageAddr(at)])

\* munmap(addr, size): every page of the range is unmapped, whoever mapped it.
call_munmap(h, addr, size) ==
    LET R == RangePages(addr, size) IN
    [h EXCEPT !.kind   = [p \in Pages |-> IF p \in R THEN "free" ELSE @[p]],
              !.bitmap = [p \in Pages |-> IF p \in R THEN EmptyBitmap ELSE @[p]],
              !.list   = [p \in Pages |-> IF p \in R THEN NOLIST ELSE @[p]],
              !.next   = [p \in Pages |-> IF p \in R THEN NULL ELSE @[p]],
              !.prev   = [p \in Pages |-> IF p \in R THEN NULL ELSE @[p]]]

\* mremap of a direct mapping; the result is [h, addr].
call_mremap(h, addr, old_nbytes, new_nbytes, os) ==
    LET old_size == align_unsigned_to_page(old_nbytes)
        new_size == align_unsigned_to_page(new_nbytes)
    IN
    IF new_size = old_size
      THEN [h |-> h, addr |-> addr]
      ELSE IF new_size = 0
        THEN \* mremap rejects a new size of zero: "shrink failed"
             [h |-> h, addr |-> addr]
      ELSE IF new_size > old_size
        THEN \* MREMAP_MAYMOVE
             IF os = REFUSE
               THEN [h |-> h, addr |-> NULL]
               ELSE Let(call_munmap(h, addr, old_size), LAMBDA gone :
                    IF os = IN_PLACE /\ RangeFree(gone, PageOf(addr), new_size)
                      THEN [h |-> MapAt(h, PageOf(addr), new_size, "large"),
                            addr |-> addr]
                      ELSE Let(LowestFree(h, new_size), LAMBDA at :
                           IF at = NULL
                             THEN [h |-> h, addr |-> NULL]
                             ELSE [h |-> MapAt(gone, at, new_size, "large"),
                                   addr |-> PageAddr(at)]))
        ELSE \* shrinking in place: the tail pages are unmapped
             [h |-> call_munmap(h, addr + new_size, old_size - new_size),
              addr |-> addr]

\* ---------------------------------------------------------------- superblock
\* Page pointers are page numbers, NULL for nullptr.  A store or load
\* through a pointer to a page that is not mapped faults.

add_to_superblock_entry(h, bm_page, lfb) ==
    LET first == h.superblock[lfb] IN
    IF ~Mapped(h, bm_page)
      THEN Crash(h)
      ELSE IF first # NULL
        THEN IF ~Mapped(h, first)
               THEN Crash(h)
               ELSE Let([h EXCEPT !.prev[bm_page] = h.prev[first],
                                  !.next[bm_page] = first],
                        LAMBDA h1 :
                    LET last_page == h1.prev[first] IN
                    IF ~Mapped(h1, last_page)
                      THEN Crash(h1)
                      ELSE Let([h1 EXCEPT !.next[last_page] = bm_page],
                               LAMBDA h2 :
                               [h2 EXCEPT !.prev[first] = bm_page,
                                          !.list[bm_page] = lfb]))
        ELSE [h EXCEPT !.superblock[lfb] = bm_page,
                       !.next[bm_page] = bm_page,
                       !.prev[bm_page] = bm_page,
                       !.list[bm_page] = lfb]

add_to_superblock(h, bm_page) ==
    IF ~Mapped(h, bm_page)
      THEN Crash(h)
      ELSE add_to_superblock_entry(h, bm_page,
                                   find_longest_free_block(h.bitmap[bm_page]))

\* The build without DEBUG: `list` is neither checked nor cleared.
delete_from_list(h, bm_page) ==
    IF ~Mapped(h, bm_page)
      THEN Crash(h)
      ELSE
        LET lst == h.list[bm_page]
            nx  == h.next[bm_page]
            pv  == h.prev[bm_page]
        IN
        IF nx = pv
          THEN \* "last page, make list empty"
               IF lst = NOLIST THEN Crash(h)
               ELSE IF lst = WILD THEN h
               ELSE [h EXCEPT !.superblock[lst] = NULL]
          ELSE IF lst = NOLIST \/ lst = WILD \/ ~Mapped(h, nx) \/ ~Mapped(h, pv)
                 THEN Crash(h)
                 ELSE Let([h EXCEPT !.superblock[lst] =
                                       IF @ = bm_page THEN nx ELSE @],
                          LAMBDA h1 :
                      Let([h1 EXCEPT !.prev[nx] = pv], LAMBDA h2 :
                          [h2 EXCEPT !.next[pv] = nx]))

grab_superblock_page(h, bm_page) == delete_from_list(h, bm_page)

\* The first non-empty bucket at or above num_units, as superblock index,
\* or -1 when the loop ends without finding one.
RECURSIVE FindAvailableFrom(_, _)
FindAvailableFrom(h, lfb) ==
    IF lfb <= max_data_units
      THEN IF h.superblock[lfb] # NULL
             THEN lfb
             ELSE FindAvailableFrom(h, lfb + 1)
      ELSE -1

\* The result is [h, bm_page].
find_available_page(h, num_units) ==
    Let(FindAvailableFrom(h, num_units), LAMBDA lfb :
        IF lfb = -1
          THEN [h |-> h, bm_page |-> NULL]
          ELSE [h |-> delete_from_list(h, h.superblock[lfb]),
                bm_page |-> h.superblock[lfb]])

\* ---------------------------------------------------------------- sub-allocator

SetBitmap(h, bm_page, bm) == [h EXCEPT !.bitmap[bm_page] = bm]

CountBlock(h) ==
    [h EXCEPT !.blocks_allocated = atomic_fetch_add(@, 1)]

\* The result is [h, addr], addr = NULL when no page could be mapped.
bm_allocate(h, num_units, os) ==
    Let(find_available_page(h, num_units), LAMBDA fa :
    IF fa.h.terminated
      THEN [h |-> fa.h, addr |-> NULL]
      ELSE IF fa.bm_page # NULL
        THEN Let(find_free_block(fa.h.bitmap[fa.bm_page], num_units),
                 LAMBDA offset :
             IF offset = 0
               THEN [h |-> Crash(fa.h), addr |-> NULL]
               ELSE Let(SetBitmap(fa.h, fa.bm_page,
                                  set_bits(fa.h.bitmap[fa.bm_page], offset, num_units)),
                        LAMBDA h1 :
                    Let(add_to_superblock(h1, fa.bm_page), LAMBDA h2 :
                        [h |-> IF h2.terminated THEN h2 ELSE CountBlock(h2),
                         addr |-> IF h2.terminated THEN NULL
                                  ELSE PageAddr(fa.bm_page) + offset * UNIT_SIZE])))
        ELSE Let(call_mmap(fa.h, sys_page_size, os, "bm"), LAMBDA m :
             IF m.addr = NULL
               THEN [h |-> m.h, addr |-> NULL]
               ELSE Let(SetBitmap(m.h, PageOf(m.addr),
                                  set_bits(EmptyBitmap, 0,
                                           bm_page_header_size_in_units + num_units)),
                        LAMBDA h1 :
                    Let(add_to_superblock_entry(h1, PageOf(m.addr),
                                                max_data_units - num_units),
                        LAMBDA h2 :
                        [h |-> CountBlock(
                                 [h2 EXCEPT !.num_bm_pages = atomic_fetch_add(@, 1)]),
                         addr |-> m.addr + bm_page_header_size_in_units * UNIT_SIZE]))))

bm_shrink(h, bm_page, offset, old_num_units, new_num_units) ==
    Let(grab_superblock_page(h, bm_page), LAMBDA h1 :
    IF h1.terminated
      THEN h1
      ELSE Let(SetBitmap(h1, bm_page,
                         clear_bits(h1.bitmap[bm_page], offset + new_num_units,
                                    old_num_units - new_num_units)),
               LAMBDA h2 : add_to_superblock(h2, bm_page)))

\* The result is [h, ok].  When the block cannot grow the code unlocks the
\* mutex, which it does not hold, and leaves the page out of every bucket;
\* unlocking a mutex the thread does not own is undefined: the call either
\* has no effect on the mutex besides marking it free, or traps.
bm_grow(h, bm_page, offset, old_num_units, new_num_units, ub_traps) ==
    Let(grab_superblock_page(h, bm_page), LAMBDA h1 :
    IF h1.terminated
      THEN [h |-> h1, ok |-> FALSE]
      ELSE
        LET increment == new_num_units - old_num_units
            length == count_zero_bits(h1.bitmap[bm_page],
                                      offset + old_num_units, increment)
        IN
        IF length < increment
          THEN [h |-> IF ub_traps THEN Crash(h1) ELSE [h1 EXCEPT !.lock = NULL],
                ok |-> FALSE]
          ELSE Let(SetBitmap(h1, bm_page,
                             set_bits(h1.bitmap[bm_page],
                                      offset + old_num_units, increment)),
                   LAMBDA h2 :
                   [h |-> add_to_superblock(h2, bm_page), ok |-> TRUE]))

bm_release(h, bm_page, offset, num_units) ==
    Let(grab_superblock_page(h, bm_page), LAMBDA h1 :
    IF h1.terminated
      THEN h1
      ELSE Let(SetBitmap(h1, bm_page,
                         clear_bits(h1.bitmap[bm_page], offset, num_units)),
               LAMBDA h2 :
           Let(find_longest_free_block(h2.bitmap[bm_page]), LAMBDA lfb :
           Let(IF lfb < max_data_units
                 THEN add_to_superblock_entry(h2, bm_page, lfb)
                 ELSE [call_munmap(h2, PageAddr(bm_page), sys_page_size)
                         EXCEPT !.num_bm_pages = atomic_fetch_sub(@, 1)],
               LAMBDA h3 :
               IF h3.terminated
                 THEN h3
                 ELSE [h3 EXCEPT !.blocks_allocated = atomic_fetch_sub(@, 1)]))))

\* ---------------------------------------------------------------- interface

\* A faulty _allocate whose threshold takes max_data_units units for a
\* small block.
_allocate_inclusive(h, nbytes, os) ==
    IF nbytes = 0
      THEN [h |-> h, addr |-> NULL]
      ELSE IF bytes_to_units(nbytes) <= max_data_units
        THEN bm_allocate(h, bytes_to_units(nbytes), os)
        ELSE Let(call_mmap(h, align_unsigned_to_page(nbytes), os, "large"),
                 LAMBDA m :
                 [h |-> IF m.addr # NULL THEN CountBlock(m.h) ELSE m.h,
                  addr |-> m.addr])

\* The result is [h, addr].
_allocate(h, nbytes, os) ==
    IF nbytes = 0
      THEN [h |-> h, addr |-> NULL]
      ELSE IF bytes_to_units(nbytes) < max_data_units
        THEN bm_allocate(h, bytes_to_units(nbytes), os)
        ELSE Let(call_mmap(h, align_unsigned_to_page(nbytes), os, "large"),
                 LAMBDA m :
                 [h |-> IF m.addr # NULL THEN CountBlock(m.h) ELSE m.h,
                  addr |-> m.addr])

\* A faulty _release that takes nbytes == 0 for a request to do nothing.
_release_lenient(h, addr, nbytes) ==
    [h |-> h, addr |-> IF nbytes = 0 THEN addr ELSE NULL]

\* The result is [h, addr], addr being *addr_ptr after the call.
_release(h, addr, nbytes) ==
    IF addr = NULL
      THEN [h |-> h, addr |-> addr]
      ELSE IF nbytes = 0
        THEN [h |-> Crash(h), addr |-> addr]
        ELSE Let(IF addr = bm_page_from_addr(addr)
                   THEN [call_munmap(h, addr, align_unsigned_to_page(nbytes))
                           EXCEPT !.blocks_allocated = atomic_fetch_sub(@, 1)]
                   ELSE bm_release(h, PageOf(addr),
                                   ptrdiff_to_units(addr, bm_page_from_addr(addr)),
                                   bytes_to_units(nbytes)),
                 LAMBDA h1 :
                 [h |-> h1, addr |-> IF h1.terminated THEN addr ELSE NULL])

\* What a call hands back: the return value, *addr_ptr and *addr_changed.
\* When h.terminated the call did not return.
Ret(h, ret, addr, changed) ==
    [h |-> h, ret |-> ret, addr |-> addr, changed |-> changed]

\* The bytes at the start of a direct mapping belong to the caller.  Read
\* as a BmPageHeader they give any list pointer and any bitmap; the model
\* takes a null list pointer (NOLIST) or one into writable memory outside
\* the allocator (WILD), equal link pointers, and three bitmaps.
GarbageBitmaps ==
    { [i \in Slots |-> 0], [i \in Slots |-> 1], [i \in Slots |-> i % 2] }

Garbage == [list : {NOLIST, WILD}, bitmap : GarbageBitmaps]

NoGarbage == [list |-> NOLIST, bitmap |-> EmptyBitmap]

AsBmPage(h, p, g) ==
    [h EXCEPT !.list[p] = g.list, !.next[p] = NULL, !.prev[p] = NULL,
              !.bitmap[p] = g.bitmap]

\* label remap of the shrinking branch
ReallocRemap(h, addr, old_nbytes, new_nbytes, os) ==
    Let(call_mremap(h, addr, old_nbytes, new_nbytes, os), LAMBDA m :
        Ret(m.h, TRUE, addr, FALSE))

\* new_num_units < old_num_units
ReallocShrink(h, addr, old_nbytes, new_nbytes, os, g) ==
    LET new_num_units == bytes_to_units(new_nbytes)
        old_num_units == bytes_to_units(old_nbytes)
        bm_page == bm_page_from_addr(addr)
    IN
    IF new_num_units < max_data_units
      THEN IF old_num_units < max_data_units
             THEN IF addr = bm_page
                    THEN Ret(Crash(h), FALSE, addr, FALSE)
                    ELSE Ret(bm_shrink(h, PageOf(addr),
                                       ptrdiff_to_units(addr, bm_page),
                                       old_num_units, new_num_units),
                             TRUE, addr, FALSE)
             ELSE \* from the page allocator to the sub-allocator
                  IF addr # bm_page
                    THEN Ret(Crash(h), FALSE, addr, FALSE)
                    ELSE Let(bm_allocate(h, new_num_units, os), LAMBDA nb :
                         IF nb.h.terminated
                           THEN Ret(nb.h, FALSE, addr, FALSE)
                           ELSE IF nb.addr = NULL
                             THEN ReallocRemap(nb.h, addr, old_nbytes, new_nbytes, os)
                             ELSE Let(AsBmPage(nb.h, PageOf(addr), g), LAMBDA h1 :
                                  Let(bm_release(h1, PageOf(addr),
                                                 ptrdiff_to_units(addr, bm_page),
                                                 new_num_units),
                                      LAMBDA h2 : Ret(h2, TRUE, nb.addr, TRUE))))
      ELSE IF addr # bm_page
             THEN Ret(Crash(h), FALSE, addr, FALSE)
             ELSE ReallocRemap(h, addr, old_nbytes, new_nbytes, os)

\* A faulty ReallocMove that reports the address as unchanged.
ReallocMove_quiet(h, addr, old_nbytes, new_nbytes, os) ==
    Let(_allocate(h, new_nbytes, os), LAMBDA nb :
        IF nb.h.terminated \/ nb.addr = NULL
          THEN Ret(nb.h, FALSE, addr, FALSE)
          ELSE Ret(nb.h, TRUE, nb.addr, FALSE))

\* "reallocate block": allocate, copy, release the old block.
ReallocMove(h, addr, old_nbytes, new_nbytes, os) ==
    Let(_allocate(h, new_nbytes, os), LAMBDA nb :
    IF nb.h.terminated
      THEN Ret(nb.h, FALSE, addr, FALSE)
      ELSE IF nb.addr = NULL
        THEN Ret(nb.h, FALSE, addr, FALSE)
        ELSE Let(_release(nb.h, addr, old_nbytes), LAMBDA rel :
                 \* *addr_changed = new_block != addr, addr being the local
                 \* variable that _release has just set
                 Ret(rel.h, TRUE, nb.addr, nb.addr # rel.addr)))

\* new_num_units > old_num_units
ReallocGrow(h, addr, old_nbytes, new_nbytes, os, ub_traps) ==
    LET new_num_units == bytes_to_units(new_nbytes)
        old_num_units == bytes_to_units(old_nbytes)
        bm_page == bm_page_from_addr(addr)
    IN
    IF old_num_units < max_data_units
      THEN IF new_num_units < max_data_units
             THEN IF addr = bm_page
                    THEN Ret(Crash(h), FALSE, addr, FALSE)
                    ELSE Let(bm_grow(h, PageOf(addr),
                                     ptrdiff_to_units(addr, bm_page),
                                     old_num_units, new_num_units, ub_traps),
                             LAMBDA gr :
                             IF gr.h.terminated
                               THEN Ret(gr.h, FALSE, addr, FALSE)
                               ELSE IF gr.ok
                                 THEN Ret(gr.h, TRUE, addr, FALSE)
                                 ELSE ReallocMove(gr.h, addr, old_nbytes,
                                                  new_nbytes, os))
             ELSE ReallocMove(h, addr, old_nbytes, new_nbytes, os)
      ELSE IF addr # bm_page
             THEN Ret(Crash(h), FALSE, addr, FALSE)
             ELSE Let(call_mremap(h, addr, old_nbytes, new_nbytes, os), LAMBDA m :
                      IF m.addr = NULL
                        THEN Ret(m.h, FALSE, addr, FALSE)
                        ELSE Ret(m.h, TRUE, m.addr, m.addr # addr))

\* A faulty _reallocate without the test new_num_units == old_num_units:
\* equal unit counts go on to the growing branch.
_reallocate_no_fast_path(h, addr, old_nbytes, new_nbytes, os, g, ub_traps) ==
    IF old_nbytes = new_nbytes
      THEN Ret(h, TRUE, addr, FALSE)
      ELSE IF addr = NULL
        THEN IF old_nbytes # 0
               THEN Ret(h, FALSE, addr, FALSE)
               ELSE Let(_allocate(h, new_nbytes, os), LAMBDA a :
                        IF a.addr = NULL
                          THEN Ret(a.h, FALSE, addr, FALSE)
                          ELSE Ret(a.h, TRUE, a.addr, TRUE))
      ELSE IF bytes_to_units(new_nbytes) < bytes_to_units(old_nbytes)
        THEN ReallocShrink(h, addr, old_nbytes, new_nbytes, os, g)
        ELSE ReallocGrow(h, addr, old_nbytes, new_nbytes, os, ub_traps)

\* The result is Ret(h, return value, *addr_ptr, *addr_changed).
_reallocate(h, addr, old_nbytes, new_nbytes, os, g, ub_traps) ==
    IF old_nbytes = new_nbytes
      THEN Ret(h, TRUE, addr, FALSE)
      ELSE IF addr = NULL
        THEN IF old_nbytes # 0
               THEN Ret(h, FALSE, addr, FALSE)
               ELSE Let(_allocate(h, new_nbytes, os), LAMBDA a :
                        IF a.addr = NULL
                          THEN Ret(a.h, FALSE, addr, FALSE)
                          ELSE Ret(a.h, TRUE, a.addr, TRUE))
      ELSE IF old_nbytes = 0 /\ new_nbytes = 0  \* !(old_nbytes | new_nbytes)
        THEN Ret(h, FALSE, addr, FALSE)
      ELSE IF bytes_to_units(new_nbytes) = bytes_to_units(old_nbytes)
        THEN Ret(h, TRUE, addr, FALSE)
      ELSE IF bytes_to_units(new_nbytes) < bytes_to_units(old_nbytes)
        THEN ReallocShrink(h, addr, old_nbytes, new_nbytes, os, g)
        ELSE ReallocGrow(h, addr, old_nbytes, new_nbytes, os, ub_traps)

\* ---------------------------------------------------------------- callers
\* The callers hold the blocks they were given, each with the size they
\* last asked for, and pass them back with that size.

Block == [addr : Nat, nbytes : Nat]

Held == DOMAIN blocks

RECURSIVE SumOver(_, _)
SumOver(f, S) ==
    IF S = {} THEN 0
    ELSE LET x == CHOOSE y \in S : TRUE IN f[x] + SumOver(f, S \ {x})

NumHeld == SumOver(blocks, Held)

BagAdd(B, b) ==
    IF b \in DOMAIN B
      THEN [B EXCEPT ![b] = @ + 1]
      ELSE [x \in DOMAIN B \cup {b} |-> IF x = b THEN 1 ELSE B[x]]

BagDel(B, b) ==
    IF B[b] > 1
      THEN [B EXCEPT ![b] = @ - 1]
      ELSE [x \in DOMAIN B \ {b} |-> B[x]]

IsSmall(nbytes) == bytes_to_units(nbytes) < max_data_units

IsLarge(nbytes) == ~IsSmall(nbytes)

NoCall ==
    [op |-> "none", addr_in |-> NULL, old_nbytes |-> 0, new_nbytes |-> 0,
     ret |-> FALSE, addr |-> NULL, changed |-> FALSE]

NumThreads == 2

Threads == 1..NumThreads

\* The local variables of bm_allocate and bm_release.
NoLoc == [addr |-> NULL, num_units |-> 0, bm_page |-> NULL, offset |-> 0, lfb |-> 0]

\* sizeof(Word) in cleanse: the width of its word stores.
SIZEOF_WORD == 8

\* The bytes are followed in groups of half a word, each named by the
\* address of its first byte; the sizes asked for in SpecContent are
\* multiples of it.
CELL == SIZEOF_WORD \div 2

\* Byte addresses of the pages.
Bytes == { a \in PageAddr(1)..(PageAddr(NumPages + 1) - 1) : a % CELL = 0 }

\* Anonymous pages come zero-filled.
NoMem == [a \in Bytes |-> 0]

\* #define BUBBLEWRAP: the number of bytes around an allocated block.
BUBBLEWRAP == 32

\* The byte the debug adaptor fills the red zones with.
CANARY == 255

MaxDbgBlocks == 2

\* The regions malloc can hand out at one time.
DbgSlots == 1..MaxDbgBlocks

\* A place malloc has handed out no region for.
NoRegion == [addr |-> NULL, nbytes |-> 0, lower |-> << >>, data |-> << >>,
             upper |-> << >>, written |-> {}]

DbgNoCall == [op |-> "none", ret |-> FALSE, damaged |-> FALSE, written |-> {}]

\* The debug adaptor before its first call.
NoDbg == [region |-> [s \in DbgSlots |-> NoRegion], blocks_allocated |-> 0,
          last |-> DbgNoCall, dead |-> FALSE]

\* The Event after create_event, which allocates it clean: the flag is
\* clear, the mutex free, no thread waits.  pc is each thread's position in
\* the call it is in; timed, signalled and status are the locals of
\* wait_event (timeout >= 0.0, signalled, what the condition wait returned);
\* ended is the flag as the wait found it when it was over, returned says
\* that the thread's latest wait_event has returned and ret what it
\* returned, sets is the number of calls of set_event when they are counted.
NoEvent ==
    [flag      |-> FALSE,
     mtx       |-> NULL,
     cond      |-> {},
     pc        |-> [t \in Threads |-> "idle"],
     timed     |-> [t \in Threads |-> FALSE],
     signalled |-> [t \in Threads |-> FALSE],
     status    |-> [t \in Threads |-> "none"],
     ended     |-> [t \in Threads |-> FALSE],
     returned  |-> [t \in Threads |-> FALSE],
     ret       |-> [t \in Threads |-> FALSE],
     sets      |-> 0]

\* The state after init_allocator: no page mapped, every bucket empty.
Init ==
    /\ kind = [p \in Pages |-> "free"]
    /\ bitmap = [p \in Pages |-> EmptyBitmap]
    /\ list = [p \in Pages |-> NOLIST]
    /\ next = [p \in Pages |-> NULL]
    /\ prev = [p \in Pages |-> NULL]
    /\ superblock = [k \in 0..max_data_units |-> NULL]
    /\ num_bm_pages = 0
    /\ blocks_allocated = 0
    /\ lock = NULL
    /\ terminated = FALSE
    /\ blocks = << >>
    /\ last = NoCall
    /\ pc = [t \in Threads |-> "idle"]
    /\ loc = [t \in Threads |-> NoLoc]
    /\ std = [live |-> {}, blocks_allocated |-> 0, held |-> {}, last |-> NoCall,
              dead |-> FALSE]
    /\ mem = NoMem
    /\ dbg = NoDbg
    /\ event = NoEvent

\* allocate(nbytes) by a caller that holds fewer than max_held blocks.
Allocate(S, max_held, rec) ==
    /\ ~terminated
    /\ NumHeld < max_held
    /\ \E nbytes \in S, os \in {REFUSE, PLACE} :
         \E r \in {_allocate(Heap, nbytes, os)} :
           /\ SetHeap(r.h)
           /\ blocks' = IF r.addr # NULL
                          THEN BagAdd(blocks, [addr |-> r.addr, nbytes |-> nbytes])
                          ELSE blocks
           /\ last' = IF rec
                        THEN [op |-> "allocate", addr_in |-> NULL, old_nbytes |-> 0,
                              new_nbytes |-> nbytes, ret |-> r.addr # NULL,
                              addr |-> r.addr, changed |-> FALSE]
                        ELSE last
    /\ UNCHANGED << pc, loc, std, mem, dbg, event >>

\* release(&addr, nbytes) of a held block with its size.
Release(rec) ==
    /\ ~terminated
    /\ \E b \in Held :
         /\ b.nbytes # 0
         /\ \E r \in {_release(Heap, b.addr, b.nbytes)} :
              /\ SetHeap(r.h)
              /\ blocks' = IF r.h.terminated THEN blocks ELSE BagDel(blocks, b)
              /\ last' = IF rec
                           THEN [op |-> "release", addr_in |-> b.addr,
                                 old_nbytes |-> b.nbytes, new_nbytes |-> 0,
                                 ret |-> TRUE, addr |-> r.addr, changed |-> FALSE]
                           ELSE last
    /\ UNCHANGED << pc, loc, std, mem, dbg, event >>

\* release(&addr, 0) of a held block.
ReleaseZero ==
    /\ ~terminated
    /\ \E b \in Held :
         \E r \in {_release(Heap, b.addr, 0)} :
           /\ SetHeap(r.h)
           /\ blocks' = IF r.h.terminated THEN blocks ELSE BagDel(blocks, b)
           /\ last' = [op |-> "release", addr_in |-> b.addr,
                       old_nbytes |-> 0, new_nbytes |-> 0,
                       ret |-> TRUE, addr |-> r.addr, changed |-> FALSE]
    /\ UNCHANGED << pc, loc, std, mem, dbg, event >>

\* reallocate(&addr, old_nbytes, new_nbytes, ...) of a held block with its
\* size.  The bytes of the block matter only when a direct mapping shrinks
\* into the sub-allocator, the way a stray unlock ends only when a small
\* block grows.
Reallocate(S, rec) ==
    /\ ~terminated
    /\ \E b \in Held, new_nbytes \in S, os \in {REFUSE, PLACE, IN_PLACE} :
         \E g \in IF IsLarge(b.nbytes) /\ IsSmall(new_nbytes)
                       THEN Garbage ELSE {NoGarbage},
               ub_traps \in IF IsSmall(b.nbytes) /\ IsSmall(new_nbytes)
                                 /\ new_nbytes > b.nbytes
                              THEN BOOLEAN ELSE {FALSE} :
              \E r \in {_reallocate(Heap, b.addr, b.nbytes, new_nbytes,
                                    os, g, ub_traps)} :
                /\ SetHeap(r.h)
                /\ blocks' = IF r.h.terminated \/ ~r.ret
                               THEN blocks
                               ELSE BagAdd(BagDel(blocks, b),
                                           [addr |-> r.addr, nbytes |-> new_nbytes])
                /\ last' = IF rec
                             THEN [op |-> "reallocate", addr_in |-> b.addr,
                                   old_nbytes |-> b.nbytes,
                                   new_nbytes |-> new_nbytes, ret |-> r.ret,
                                   addr |-> r.addr, changed |-> r.changed]
                             ELSE last
    /\ UNCHANGED << pc, loc, std, mem, dbg, event >>

\* reallocate(&addr, old_nbytes, new_nbytes, ...) with *addr == nullptr.
ReallocateEmpty(S, max_held) ==
    /\ ~terminated
    /\ NumHeld < max_held
    /\ \E old_nbytes \in {0, UNIT_SIZE}, new_nbytes \in S, os \in {REFUSE, PLACE} :
         \E r \in {_reallocate(Heap, NULL, old_nbytes, new_nbytes,
                               os, NoGarbage, FALSE)} :
           /\ SetHeap(r.h)
           /\ blocks' = IF r.addr # NULL
                          THEN BagAdd(blocks, [addr |-> r.addr, nbytes |-> new_nbytes])
                          ELSE blocks
           /\ last' = [op |-> "reallocate", addr_in |-> NULL,
                       old_nbytes |-> old_nbytes, new_nbytes |-> new_nbytes,
                       ret |-> r.ret, addr |-> r.addr, changed |-> r.changed]
    /\ UNCHANGED << pc, loc, std, mem, dbg, event >>

\* ---------------------------------------------------------------- specification
\* One thread; every call runs to its end before the next one starts.

\* Request sizes in bytes: zero, below and at one unit, the largest small
\* block, the smallest block mapped directly, and a two-page block.
Sizes ==
    { 0, UNIT_SIZE - 1, UNIT_SIZE, (max_data_units - 1) * UNIT_SIZE,
      max_data_units * UNIT_SIZE, sys_page_size + 1 }

MaxHeld == 2

\* The pages of the direct mappings the callers hold.
HeldLargePages ==
    UNION { RangePages(b.addr, align_unsigned_to_page(b.nbytes)) :
              b \in { x \in Held : IsLarge(x.nbytes) } }

NumBmPagesMapped == Cardinality({ p \in Pages : kind[p] = "bm" })

\* No direct mapping is mapped without a holder and the page counter is
\* right.  A run is followed past the first state where this fails only
\* through release calls: that is where the callers give everything back,
\* and it keeps the lost pages and the counter's drift bounded.
NothingLost ==
    /\ \A p \in Pages : kind[p] = "large" => p \in HeldLargePages
    /\ num_bm_pages = NumBmPagesMapped

Next ==
    \/ (NothingLost /\ Allocate(Sizes, MaxHeld, TRUE))
    \/ Release(TRUE)
    \/ (NothingLost /\ ReleaseZero)
    \/ (NothingLost /\ Reallocate(Sizes, TRUE))
    \/ (NothingLost /\ ReallocateEmpty(Sizes, MaxHeld))

Spec == Init /\ [][Next]_vars

\* ---------------------------------------------------------------- C1

AllReleased == ~terminated /\ NumHeld = 0

\* C1 (as stated).  No leaks: once the callers have released every block
\* they were given, with the size they asked for, blocks_allocated and
\* num_bm_pages are zero and no page, of the sub-allocator or of a direct
\* mapping, is still mapped.
C1_NoLeaks ==
    AllReleased =>
        /\ blocks_allocated = 0
        /\ num_bm_pages = 0
        /\ \A p \in Pages : kind[p] = "free"

\* ---------------------------------------------------------------- C2
\* Small blocks only, allocated and released.

SmallSizes == { UNIT_SIZE, 2 * UNIT_SIZE, (max_data_units - 1) * UNIT_SIZE }

MaxHeldSmall == 4

NextSmall ==
    \/ Allocate(SmallSizes, MaxHeldSmall, FALSE)
    \/ Release(FALSE)

SpecSmall == Init /\ [][NextSmall]_vars

\* The units of block b, as bit indexes on its page.
UnitsOf(b) ==
    LET offset == ptrdiff_to_units(b.addr, bm_page_from_addr(b.addr))
    IN  offset..(offset + bytes_to_units(b.nbytes) - 1)

\* The units of page p that belong to a block some caller holds.
LiveUnits(p) ==
    UNION { UnitsOf(b) : b \in { x \in Held : PageOf(x.addr) = p } }

\* C2.  Bitmap fidelity: on every mapped BmPage a bit of the data area is
\* 1 exactly when its unit belongs to a block a caller holds, every held
\* block lies in the data area of a mapped BmPage, and no two held blocks
\* share a unit.
C2_BitmapFidelity ==
    ~terminated =>
        /\ \A p \in Pages :
             kind[p] = "bm" =>
               \A i \in bm_page_header_size_in_units..(units_per_page - 1) :
                 bitmap[p][i] = 1 <=> i \in LiveUnits(p)
        /\ \A b \in Held :
             /\ blocks[b] = 1
             /\ kind[PageOf(b.addr)] = "bm"
             /\ UnitsOf(b) \subseteq bm_page_header_size_in_units..(units_per_page - 1)
        /\ \A b1, b2 \in Held :
             (b1 # b2 /\ PageOf(b1.addr) = PageOf(b2.addr))
               => UnitsOf(b1) \cap UnitsOf(b2) = {}

\* A release has left a hole below a live block, and another page is in use.
C2_Witness ==
    /\ ~terminated
    /\ NumHeld >= 3
    /\ \E p \in Pages :
         /\ kind[p] = "bm"
         /\ \E i, j \in bm_page_header_size_in_units..(units_per_page - 1) :
              i < j /\ bitmap[p][i] = 0 /\ bitmap[p][j] = 1
    /\ \E p, q \in Pages : p # q /\ kind[p] = "bm" /\ kind[q] = "bm"

\* ---------------------------------------------------------------- C3

\* The pages met on the walk from page p along next, n pages at most.
RECURSIVE Walk(_, _)
Walk(p, n) ==
    IF p = NULL \/ n = 0
      THEN {}
      ELSE {p} \cup (IF p \in Pages THEN Walk(next[p], n - 1) ELSE {})

\* The pages linked in superblock[k].
Bucket(k) == Walk(superblock[k], NumPages)

\* C3 (as stated).  Bucket correctness: between calls, every page linked
\* in superblock[k] is a mapped BmPage whose longest free block is k.
C3_Buckets ==
    ~terminated =>
        \A k \in 0..max_data_units :
          \A p \in Bucket(k) :
            /\ p \in Pages
            /\ kind[p] = "bm"
            /\ find_longest_free_block(bitmap[p]) = k

\* ---------------------------------------------------------------- C4

\* Some mapped BmPage has a free run of num_units units.
SomePageFits(num_units) ==
    \E p \in Pages :
      kind[p] = "bm" /\ find_longest_free_block(bitmap[p]) >= num_units

\* Block b is handed out by this step, on a page this step has mapped.
OnFreshPage(b) ==
    /\ b \notin Held
    /\ IsSmall(b.nbytes)
    /\ PageOf(b.addr) \in Pages
    /\ kind[PageOf(b.addr)] = "free"
    /\ kind'[PageOf(b.addr)] = "bm"

\* C4 (as stated).  Best fit by bucket: a call maps a fresh page for a
\* small block of u units only when no mapped BmPage has a free run of u
\* units or more.
C4_BestFit ==
    [][\A b \in DOMAIN blocks' :
         OnFreshPage(b) => ~SomePageFits(bytes_to_units(b.nbytes))]_vars

\* ---------------------------------------------------------------- buckets
\* Small blocks allocated, released and reallocated.

MaxHeldBuckets == 3

\* Every bucket holds the pages it should and every BmPage is in a bucket.
\* A run is followed past the first state where this fails only through
\* release calls.
DirectorySound ==
    /\ C3_Buckets
    /\ \A p \in Pages :
         kind[p] = "bm" => \E k \in 0..max_data_units : p \in Bucket(k)

NextBuckets ==
    \/ (DirectorySound /\ Allocate(SmallSizes, MaxHeldBuckets, FALSE))
    \/ Release(FALSE)
    \/ (DirectorySound /\ Reallocate(SmallSizes, FALSE))

SpecBuckets == Init /\ [][NextBuckets]_vars

\* ---------------------------------------------------------------- C7

\* C7.  After a successful reallocate, addr_changed is true exactly when
\* the address in *addr_ptr differs from the one passed in.
C7_AddrChanged ==
    (~terminated /\ last.op = "reallocate" /\ last.ret)
        => (last.changed <=> last.addr # last.addr_in)

\* A small block was moved: allocate, copy, release.
C7_Witness ==
    /\ ~terminated
    /\ last.op = "reallocate"
    /\ last.ret
    /\ last.addr_in # NULL
    /\ IsSmall(last.old_nbytes)
    /\ last.addr # last.addr_in
    /\ last.changed

\* ---------------------------------------------------------------- C9

\* (a) release of a block with nbytes == 0
InvalidRelease(c) ==
    c.op = "release" /\ c.addr_in # NULL /\ c.old_nbytes = 0

\* (b) reallocate of nullptr with old_nbytes # 0, (c) reallocate with
\* old_nbytes == 0 and new_nbytes == 0
InvalidReallocate(c) ==
    /\ c.op = "reallocate"
    /\ \/ c.addr_in = NULL /\ c.old_nbytes # 0
       \/ c.old_nbytes = 0 /\ c.new_nbytes = 0

\* C9 (as stated).  Each of the three invalid calls ends the process.
C9_AllFatal ==
    (InvalidRelease(last) \/ InvalidReallocate(last)) => terminated

\* C9 (amended).  A release with nbytes == 0 of a block ends the process.
\* A reallocate of nullptr with old_nbytes # 0, or with both sizes zero,
\* does not: the call returns, with the allocator's state and *addr_ptr
\* as they were and addr_changed false.
C9_Invalid ==
    [][/\ InvalidRelease(last') => terminated'
       /\ InvalidReallocate(last') =>
            /\ ~terminated'
            /\ UNCHANGED << kind, bitmap, list, next, prev, superblock,
                            num_bm_pages, blocks_allocated, lock, blocks >>
            /\ last'.addr = last'.addr_in
            /\ ~last'.changed]_vars

\* A reallocate of nullptr with old_nbytes # 0 has returned while a block
\* is held.
C9_Witness ==
    /\ ~terminated
    /\ last.op = "reallocate"
    /\ last.addr_in = NULL
    /\ last.old_nbytes # 0
    /\ last.old_nbytes # last.new_nbytes
    /\ ~last.ret
    /\ NumHeld > 0

\* ---------------------------------------------------------------- stdlib adaptor
\* The adaptor over malloc / realloc / free.  std.live is the set of the
\* host heap's live blocks, by address; std.held the blocks the callers
\* hold; std.dead says that the process was killed.

\* Blocks the host heap can hold at a time.
MaxHostBlocks == 3

HostAddrs == 1..MaxHostBlocks

\* The lowest address the host heap may give to a new block.
HostFresh(live) ==
    IF HostAddrs \ live = {}
      THEN NULL
      ELSE CHOOSE a \in HostAddrs \ live : \A b \in HostAddrs \ live : a <= b

\* Answers of malloc / calloc, as [live, addr]: no memory, or a new block.
\* For a size of zero the same two answers are allowed.
HostMalloc(live) ==
    {[live |-> live, addr |-> NULL]}
      \cup (IF HostFresh(live) = NULL THEN {}
            ELSE {[live |-> live \cup {HostFresh(live)}, addr |-> HostFresh(live)]})

\* Answers of realloc(addr, nbytes) for a live block: no memory (the block
\* stays), the same address, or a new address (the block is freed).  For
\* nbytes == 0 the behaviour is implementation-defined or undefined: the
\* answers above, or the block is freed and the result is a null pointer.
HostRealloc(live, addr, nbytes) ==
    {[live |-> live, addr |-> NULL], [live |-> live, addr |-> addr]}
      \cup (IF HostFresh(live) = NULL THEN {}
            ELSE {[live |-> (live \ {addr}) \cup {HostFresh(live)},
                   addr |-> HostFresh(live)]})
      \cup (IF nbytes = 0 THEN {[live |-> live \ {addr}, addr |-> NULL]} ELSE {})

\* _allocate of the adaptor, m being the host's answer; the result is [s, addr].
std_allocate(s, nbytes, m) ==
    [s |-> [s EXCEPT !.live = m.live,
                     !.blocks_allocated =
                        IF m.addr # NULL THEN atomic_fetch_add(@, 1) ELSE @],
     addr |-> m.addr]

\* _release of the adaptor; the result is [s, addr].
std_release(s, addr, nbytes) ==
    IF addr # NULL
      THEN [s |-> [s EXCEPT !.live = @ \ {addr},
                            !.blocks_allocated = atomic_fetch_sub(@, 1)],
            addr |-> NULL]
      ELSE [s |-> s, addr |-> addr]

\* _reallocate of the adaptor, m being the host's answer to the one call
\* it makes (malloc when addr is nullptr, realloc otherwise); the result is
\* [s, ret, addr, changed].
std_reallocate(s, addr, old_nbytes, new_nbytes, m) ==
    IF old_nbytes = new_nbytes
      THEN [s |-> s, ret |-> TRUE, addr |-> addr, changed |-> FALSE]
      ELSE IF addr = NULL
        THEN IF old_nbytes # 0
               THEN [s |-> s, ret |-> FALSE, addr |-> addr, changed |-> FALSE]
               ELSE Let(std_allocate(s, new_nbytes, m), LAMBDA a :
                        IF a.addr = NULL
                          THEN [s |-> a.s, ret |-> FALSE, addr |-> addr,
                                changed |-> FALSE]
                          ELSE [s |-> a.s, ret |-> TRUE, addr |-> a.addr,
                                changed |-> TRUE])
        ELSE IF m.addr = NULL
               THEN [s |-> [s EXCEPT !.live = m.live], ret |-> FALSE,
                     addr |-> addr, changed |-> FALSE]
               ELSE [s |-> [s EXCEPT !.live = m.live], ret |-> TRUE,
                     addr |-> m.addr, changed |-> m.addr # addr]

\* The adaptor's counter is within what the host heap can hold; the callers
\* ask for new blocks only while it is.
StdCounterInRange == std.blocks_allocated <= MaxHostBlocks

pet_vars ==
    << kind, bitmap, list, next, prev, superblock, num_bm_pages,
       blocks_allocated, lock, terminated, blocks, last, pc, loc, mem, dbg, event >>

StdAllocate(S, max_held) ==
    /\ ~std.dead
    /\ StdCounterInRange
    /\ Cardinality(std.held) < max_held
    /\ \E nbytes \in S, m \in HostMalloc(std.live) :
         \E r \in {std_allocate(std, nbytes, m)} :
           std' = [r.s EXCEPT
                     !.held = IF r.addr # NULL
                                THEN @ \cup {[addr |-> r.addr, nbytes |-> nbytes]}
                                ELSE @,
                     !.last = [op |-> "allocate", addr_in |-> NULL,
                               old_nbytes |-> 0, new_nbytes |-> nbytes,
                               ret |-> r.addr # NULL, addr |-> r.addr,
                               changed |-> FALSE]]
    /\ UNCHANGED pet_vars

\* free() of a pointer that is not a live block is undefined: the process
\* is killed, or the call goes through.
StdRelease ==
    /\ ~std.dead
    /\ \E b \in std.held :
         \/ /\ b.addr \notin std.live
            /\ std' = [std EXCEPT !.dead = TRUE]
         \/ \E r \in {std_release(std, b.addr, b.nbytes)} :
              std' = [r.s EXCEPT
                        !.held = @ \ {b},
                        !.last = [op |-> "release", addr_in |-> b.addr,
                                  old_nbytes |-> b.nbytes, new_nbytes |-> 0,
                                  ret |-> TRUE, addr |-> r.addr,
                                  changed |-> FALSE]]
    /\ UNCHANGED pet_vars

StdReallocate(S) ==
    /\ ~std.dead
    /\ \E b \in std.held, new_nbytes \in S :
         \/ /\ b.addr \notin std.live
            /\ b.nbytes # new_nbytes
            /\ std' = [std EXCEPT !.dead = TRUE]
         \/ \E m \in HostRealloc(std.live, b.addr, new_nbytes) :
              \E r \in {std_reallocate(std, b.addr, b.nbytes, new_nbytes, m)} :
                std' = [r.s EXCEPT
                          !.held = IF r.ret
                                     THEN (@ \ {b}) \cup
                                            {[addr |-> r.addr, nbytes |-> new_nbytes]}
                                     ELSE @,
                          !.last = [op |-> "reallocate", addr_in |-> b.addr,
                                    old_nbytes |-> b.nbytes,
                                    new_nbytes |-> new_nbytes, ret |-> r.ret,
                                    addr |-> r.addr, changed |-> r.changed]]
    /\ UNCHANGED pet_vars

StdReallocateEmpty(S, max_held) ==
    /\ ~std.dead
    /\ StdCounterInRange
    /\ Cardinality(std.held) < max_held
    /\ \E old_nbytes \in {0, UNIT_SIZE}, new_nbytes \in S, m \in HostMalloc(std.live) :
         \E r \in {std_reallocate(std, NULL, old_nbytes, new_nbytes, m)} :
           std' = [r.s EXCEPT
                     !.held = IF r.addr # NULL
                                THEN @ \cup {[addr |-> r.addr, nbytes |-> new_nbytes]}
                                ELSE @,
                     !.last = [op |-> "reallocate", addr_in |-> NULL,
                               old_nbytes |-> old_nbytes,
                               new_nbytes |-> new_nbytes, ret |-> r.ret,
                               addr |-> r.addr, changed |-> r.changed]]
    /\ UNCHANGED pet_vars

StdSizes == { 0, UNIT_SIZE, 2 * UNIT_SIZE }

MaxHeldStd == 2

NextStd ==
    \/ StdAllocate(StdSizes, MaxHeldStd)
    \/ StdRelease
    \/ StdReallocate(StdSizes)
    \/ StdReallocateEmpty(StdSizes, MaxHeldStd)

SpecStd == Init /\ [][NextStd]_vars

\* ---------------------------------------------------------------- C8

\* The block [addr, nbytes] is held and its memory is still allocated.
PetBlockLive(addr, nbytes) ==
    LET b == [addr |-> addr, nbytes |-> nbytes] IN
    /\ b \in Held
    /\ IF IsSmall(nbytes)
         THEN /\ kind[PageOf(addr)] = "bm"
              /\ \A i \in UnitsOf(b) : bitmap[PageOf(addr)][i] = 1
         ELSE \A p \in RangePages(addr, align_unsigned_to_page(nbytes)) :
                kind[p] = "large"

\* The bitmap allocator's part: a reallocate that has returned false.
C8_Pet ==
    (~terminated /\ last.op = "reallocate" /\ ~last.ret) =>
        /\ ~last.changed
        /\ last.addr = last.addr_in
        /\ last.addr_in # NULL => PetBlockLive(last.addr_in, last.old_nbytes)

\* The stdlib adaptor's part.
C8_Std ==
    (~std.dead /\ std.last.op = "reallocate" /\ ~std.last.ret) =>
        /\ ~std.last.changed
        /\ std.last.addr = std.last.addr_in
        /\ std.last.addr_in # NULL =>
             /\ [addr |-> std.last.addr_in, nbytes |-> std.last.old_nbytes]
                  \in std.held
             /\ std.last.addr_in \in std.live

\* C8 (as stated).  A reallocate that returns false sets addr_changed to
\* false, leaves *addr_ptr as it was, and the block is still a live block
\* of old_nbytes bytes, in the bitmap allocator and in the stdlib adaptor
\* (new_nbytes == 0 included).
C8_FailureKeepsBlock == C8_Pet /\ C8_Std

\* ---------------------------------------------------------------- C10

\* C10 (as stated).  In the stdlib adaptor a reallocate of nullptr with
\* old_nbytes # 0, or with both sizes zero, returns false, and no block is
\* allocated or freed and blocks_allocated is unchanged.
C10_StdInvalid ==
    [][InvalidReallocate(std'.last) =>
         /\ ~std'.last.ret
         /\ std'.live = std.live
         /\ std'.blocks_allocated = std.blocks_allocated]_vars

\* ---------------------------------------------------------------- threads
\* Threads calling allocate and release for small blocks.  A thread takes
\* one step for each section of bm_allocate / bm_release that runs under
\* the mutex `lock` (every access to the superblock and to list, next and
\* prev is made under it, so such a section is one step) and one step for
\* each scan or edit of a bitmap, which the code makes without the mutex.
\* The atomic counter updates are joined to the step they follow.

PcOf(t, p) == [pc EXCEPT ![t] = p]

\* allocate(nbytes): find_available_page.
MtAllocate(t, S, max_held) ==
    /\ ~terminated
    /\ pc[t] = "idle"
    /\ NumHeld + Cardinality({ u \in Threads : pc[u] # "idle" }) < max_held
    /\ \E nbytes \in S :
         \E r \in {find_available_page(Heap, bytes_to_units(nbytes))} :
           /\ SetHeap(r.h)
           /\ pc' = PcOf(t, IF r.bm_page # NULL THEN "alloc_scan" ELSE "alloc_map")
           /\ loc' = [loc EXCEPT ![t] = [NoLoc EXCEPT
                                           !.num_units = bytes_to_units(nbytes),
                                           !.bm_page = r.bm_page]]
    /\ UNCHANGED << blocks, last, std, mem, dbg, event >>

\* bm_allocate: find_free_block on the page taken from a bucket.
MtAllocScan(t) ==
    /\ ~terminated
    /\ pc[t] = "alloc_scan"
    /\ IF ~Mapped(Heap, loc[t].bm_page)
         THEN /\ SetHeap(Crash(Heap))
              /\ UNCHANGED << pc, loc >>
         ELSE \E offset \in {find_free_block(bitmap[loc[t].bm_page], loc[t].num_units)} :
                IF offset = 0
                  THEN /\ SetHeap(Crash(Heap))
                       /\ UNCHANGED << pc, loc >>
                  ELSE /\ pc' = PcOf(t, "alloc_set")
                       /\ loc' = [loc EXCEPT ![t].offset = offset]
                       /\ SetHeap(Heap)
    /\ UNCHANGED << blocks, last, std, mem, dbg, event >>

\* bm_allocate: set_bits.
MtAllocSet(t) ==
    /\ ~terminated
    /\ pc[t] = "alloc_set"
    /\ IF ~Mapped(Heap, loc[t].bm_page)
         THEN /\ SetHeap(Crash(Heap))
              /\ UNCHANGED << pc, loc >>
         ELSE /\ SetHeap(SetBitmap(Heap, loc[t].bm_page,
                                   set_bits(bitmap[loc[t].bm_page], loc[t].offset,
                                            loc[t].num_units)))
              /\ pc' = PcOf(t, "alloc_lfb")
              /\ UNCHANGED loc
    /\ UNCHANGED << blocks, last, std, mem, dbg, event >>

\* add_to_superblock: find_longest_free_block, before the mutex is taken.
MtLfb(t, from, to) ==
    /\ ~terminated
    /\ pc[t] = from
    /\ IF ~Mapped(Heap, loc[t].bm_page)
         THEN /\ SetHeap(Crash(Heap))
              /\ UNCHANGED << pc, loc >>
         ELSE /\ loc' = [loc EXCEPT ![t].lfb =
                            find_longest_free_block(bitmap[loc[t].bm_page])]
              /\ pc' = PcOf(t, to)
              /\ SetHeap(Heap)
    /\ UNCHANGED << blocks, last, std, mem, dbg, event >>

MtAllocLfb(t) == MtLfb(t, "alloc_lfb", "alloc_add")

\* bm_allocate: add_to_superblock_entry, the counter, and the return.
MtAllocAdd(t) ==
    /\ ~terminated
    /\ pc[t] = "alloc_add"
    /\ \E h \in {add_to_superblock_entry(Heap, loc[t].bm_page, loc[t].lfb)} :
         IF h.terminated
           THEN /\ SetHeap(h)
                /\ UNCHANGED << pc, loc, blocks >>
           ELSE /\ SetHeap(CountBlock(h))
                /\ blocks' = BagAdd(blocks,
                                    [addr |-> PageAddr(loc[t].bm_page)
                                                + loc[t].offset * UNIT_SIZE,
                                     nbytes |-> loc[t].num_units * UNIT_SIZE])
                /\ pc' = PcOf(t, "idle")
                /\ loc' = [loc EXCEPT ![t] = NoLoc]
    /\ UNCHANGED << last, std, mem, dbg, event >>

\* bm_allocate without a page: call_mmap and the first set_bits.
MtAllocMap(t) ==
    /\ ~terminated
    /\ pc[t] = "alloc_map"
    /\ \E os \in {REFUSE, PLACE} :
         \E m \in {call_mmap(Heap, sys_page_size, os, "bm")} :
           IF m.addr = NULL
             THEN /\ SetHeap(m.h)
                  /\ pc' = PcOf(t, "idle")
                  /\ loc' = [loc EXCEPT ![t] = NoLoc]
             ELSE /\ SetHeap(SetBitmap(m.h, PageOf(m.addr),
                                       set_bits(EmptyBitmap, 0,
                                                bm_page_header_size_in_units
                                                  + loc[t].num_units)))
                  /\ pc' = PcOf(t, "alloc_new")
                  /\ loc' = [loc EXCEPT ![t].bm_page = PageOf(m.addr),
                                        ![t].offset = bm_page_header_size_in_units]
    /\ UNCHANGED << blocks, last, std, mem, dbg, event >>

\* bm_allocate with a new page: add_to_superblock_entry, the counters,
\* and the return.
MtAllocNew(t) ==
    /\ ~terminated
    /\ pc[t] = "alloc_new"
    /\ \E h \in {add_to_superblock_entry(Heap, loc[t].bm_page,
                                         max_data_units - loc[t].num_units)} :
         IF h.terminated
           THEN /\ SetHeap(h)
                /\ UNCHANGED << pc, loc, blocks >>
           ELSE /\ SetHeap(CountBlock(
                             [h EXCEPT !.num_bm_pages = atomic_fetch_add(@, 1)]))
                /\ blocks' = BagAdd(blocks,
                                    [addr |-> PageAddr(loc[t].bm_page)
                                                + loc[t].offset * UNIT_SIZE,
                                     nbytes |-> loc[t].num_units * UNIT_SIZE])
                /\ pc' = PcOf(t, "idle")
                /\ loc' = [loc EXCEPT ![t] = NoLoc]
    /\ UNCHANGED << last, std, mem, dbg, event >>

\* release(&addr, nbytes) of a small block: grab_superblock_page.
MtRelease(t) ==
    /\ ~terminated
    /\ pc[t] = "idle"
    /\ \E b \in Held :
         /\ b.nbytes # 0
         /\ IsSmall(b.nbytes)
         /\ \E h \in {grab_superblock_page(Heap, PageOf(b.addr))} :
              /\ SetHeap(h)
              /\ blocks' = BagDel(blocks, b)
              /\ pc' = IF h.terminated THEN pc ELSE PcOf(t, "rel_clear")
              /\ loc' = [loc EXCEPT ![t] =
                           [NoLoc EXCEPT
                              !.addr = b.addr,
                              !.num_units = bytes_to_units(b.nbytes),
                              !.bm_page = PageOf(b.addr),
                              !.offset = ptrdiff_to_units(b.addr,
                                                          bm_page_from_addr(b.addr))]]
    /\ UNCHANGED << last, std, mem, dbg, event >>

\* bm_release: clear_bits.
MtRelClear(t) ==
    /\ ~terminated
    /\ pc[t] = "rel_clear"
    /\ IF ~Mapped(Heap, loc[t].bm_page)
         THEN /\ SetHeap(Crash(Heap))
              /\ UNCHANGED << pc, loc >>
         ELSE /\ SetHeap(SetBitmap(Heap, loc[t].bm_page,
                                   clear_bits(bitmap[loc[t].bm_page], loc[t].offset,
                                              loc[t].num_units)))
              /\ pc' = PcOf(t, "rel_lfb")
              /\ UNCHANGED loc
    /\ UNCHANGED << blocks, last, std, mem, dbg, event >>

\* bm_release: find_longest_free_block.
MtRelLfb(t) == MtLfb(t, "rel_lfb", "rel_finish")

\* bm_release: back into a bucket, or call_munmap; the counters; the return.
MtRelFinish(t) ==
    /\ ~terminated
    /\ pc[t] = "rel_finish"
    /\ \E h \in {IF loc[t].lfb < max_data_units
                   THEN add_to_superblock_entry(Heap, loc[t].bm_page, loc[t].lfb)
                   ELSE [call_munmap(Heap, PageAddr(loc[t].bm_page), sys_page_size)
                           EXCEPT !.num_bm_pages = atomic_fetch_sub(@, 1)]} :
         IF h.terminated
           THEN /\ SetHeap(h)
                /\ UNCHANGED << pc, loc >>
           ELSE /\ SetHeap([h EXCEPT !.blocks_allocated = atomic_fetch_sub(@, 1)])
                /\ pc' = PcOf(t, "idle")
                /\ loc' = [loc EXCEPT ![t] = NoLoc]
    /\ UNCHANGED << blocks, last, std, mem, dbg, event >>

MtSizes == { UNIT_SIZE, 2 * UNIT_SIZE }

MaxHeldMt == 2

\* New calls are explored only while the counters have not wrapped.
CountersInRange ==
    /\ num_bm_pages <= NumPages
    /\ blocks_allocated <= MaxHeldMt

NextMt ==
    \E t \in Threads :
      \/ (CountersInRange /\ MtAllocate(t, MtSizes, MaxHeldMt))
      \/ MtAllocScan(t)
      \/ MtAllocSet(t)
      \/ MtAllocLfb(t)
      \/ MtAllocAdd(t)
      \/ MtAllocMap(t)
      \/ MtAllocNew(t)
      \/ (CountersInRange /\ MtRelease(t))
      \/ MtRelClear(t)
      \/ MtRelLfb(t)
      \/ MtRelFinish(t)

SpecMt == Init /\ [][NextMt]_vars

\* ---------------------------------------------------------------- C5

\* Thread t has taken loc[t].bm_page out of the superblock, or has mapped
\* it, and has not yet put it back or unmapped it.
HasDetached(t) ==
    pc[t] \in { "alloc_scan", "alloc_set", "alloc_lfb", "alloc_add", "alloc_new",
                "rel_clear", "rel_lfb", "rel_finish" }

\* C5 (as stated).  Exclusive access: no two threads have the same BmPage
\* detached at the same time.
C5_Exclusive ==
    \A t1, t2 \in Threads :
      (t1 # t2 /\ HasDetached(t1) /\ HasDetached(t2))
        => loc[t1].bm_page # loc[t2].bm_page

\* ---------------------------------------------------------------- C6

Quiescent == \A t \in Threads : pc[t] = "idle"

\* C6 (as stated).  Counter consistency: when no call is in flight,
\* blocks_allocated is the number of blocks the callers hold and
\* num_bm_pages the number of mapped BmPages; and num_bm_pages never wraps
\* below zero.
C6_Counters ==
    ~terminated =>
        /\ Quiescent => /\ blocks_allocated = NumHeld
                        /\ num_bm_pages = NumBmPagesMapped
        /\ num_bm_pages <= NumPages
        /\ blocks_allocated <= NumPages * max_data_units

\* ---------------------------------------------------------------- C11

\* C11 (as stated).  Large-block alignment: the address of every block a
\* caller holds is page-aligned exactly when the block's size takes
\* max_data_units units or more.
C11_Alignment ==
    ~terminated =>
        \A b \in Held :
            (b.addr = bm_page_from_addr(b.addr)) <=> IsLarge(b.nbytes)

\* ---------------------------------------------------------------- C12

\* The latest call returned an address that bm_allocate has just produced:
\* allocate of a small size, or reallocate to a small size that handed back
\* another address than it was given.
SmallPathReturn ==
    /\ ~terminated
    /\ last.op \in { "allocate", "reallocate" }
    /\ last.ret
    /\ last.addr # NULL
    /\ last.addr # last.addr_in
    /\ IsSmall(last.new_nbytes)

\* The block of num_units units at addr lies in the data area of one mapped
\* BmPage, on a unit boundary.
InDataArea(addr, num_units) ==
    LET page == bm_page_from_addr(addr)
        offset == (addr - page) \div UNIT_SIZE
    IN
    /\ PageOf(addr) \in Pages
    /\ kind[PageOf(addr)] = "bm"
    /\ (addr - page) % UNIT_SIZE = 0
    /\ offset >= bm_page_header_size_in_units
    /\ offset + num_units <= units_per_page

\* C12.  Address/size coherence: an address returned by the small path lies
\* in a mapped BmPage, on a unit boundary at or after the header, and the
\* block ends inside the page.
C12_Coherence ==
    SmallPathReturn => InDataArea(last.addr, bytes_to_units(last.new_nbytes))

\* A small block has been returned that ends with the last unit of a page
\* that already held another block.
C12_Witness ==
    /\ SmallPathReturn
    /\ bytes_to_units(last.new_nbytes) > 0
    /\ ptrdiff_to_units(last.addr, bm_page_from_addr(last.addr))
         + bytes_to_units(last.new_nbytes) = units_per_page
    /\ ptrdiff_to_units(last.addr, bm_page_from_addr(last.addr))
         > bm_page_header_size_in_units

\* ---------------------------------------------------------------- C13

\* The call c is a reallocate of a block, to a size of as many units as
\* the block has, both counts small.
SameUnits(c) ==
    /\ c.op = "reallocate"
    /\ c.addr_in # NULL
    /\ bytes_to_units(c.old_nbytes) = bytes_to_units(c.new_nbytes)
    /\ IsSmall(c.old_nbytes)
    /\ IsSmall(c.new_nbytes)

\* C13.  Reallocate with unchanged unit count: the call returns true with
\* the same address and addr_changed false, and every bitmap, the
\* superblock with the links of its pages, the two counters and the mutex
\* are as before the call.
C13_SameUnits ==
    [][SameUnits(last') =>
         /\ last'.ret
         /\ last'.addr = last'.addr_in
         /\ ~last'.changed
         /\ ~terminated'
         /\ UNCHANGED << kind, bitmap, list, next, prev, superblock,
                         num_bm_pages, blocks_allocated, lock >>]_vars

\* Such a call has been made with two different sizes, on a page that
\* shares its bucket with another page.
C13_Witness ==
    /\ SameUnits(last)
    /\ last.old_nbytes # last.new_nbytes
    /\ last.ret
    /\ ~terminated
    /\ \E p \in Pages : p # PageOf(last.addr) /\ kind[p] = "bm"
                          /\ list[p] = list[PageOf(last.addr)]

\* ---------------------------------------------------------------- block contents
\* The bytes of the pages: 0 for a zero byte, 1 for any other value.  The
\* page headers are followed in list, next, prev and bitmap, not here.

\* sizeof(BmPageHeader*): the width of the store *list = nullptr.
SIZEOF_POINTER == HEADER_OFFSETOF_BITMAP \div 3

\* Bytes a .. a+n-1 set to v.
Store(m, a, n, v) ==
    [x \in DOMAIN m |-> IF a <= x /\ x < a + n THEN v ELSE m[x]]

\* A faulty cleanse that skips the bytes before the first word boundary.
cleanse_words_only(m, addr, start, end) ==
    LET lead == start % SIZEOF_WORD
        nbytes == IF lead = 0 THEN 0 ELSE Min(SIZEOF_WORD - lead, end - start)
    IN  Store(m, addr + start + nbytes, (end - start) - nbytes, 0)

\* The bytes up to the next word boundary, the whole words, the rest.
cleanse(m, addr, start, end) ==
    LET length == end - start
        lead   == start % SIZEOF_WORD
        nbytes == IF lead = 0 THEN 0 ELSE Min(SIZEOF_WORD - lead, length)
        nwords == (length - nbytes) \div SIZEOF_WORD
        rest   == (length - nbytes) - nwords * SIZEOF_WORD
    IN  Store(Store(Store(m, addr + start, nbytes, 0),
                    addr + start + nbytes, nwords * SIZEOF_WORD, 0),
              addr + start + nbytes + nwords * SIZEOF_WORD, rest, 0)

memcpy(m, dst, src, n) ==
    [x \in DOMAIN m |->
       IF dst <= x /\ x < dst + n THEN m[src + (x - dst)] ELSE m[x]]

\* munmap: the bytes of pages that are no longer mapped are gone; a page
\* mapped again comes zero-filled.
Unmapped(m, h) ==
    [x \in DOMAIN m |-> IF h.kind[PageOf(x)] = "free" THEN 0 ELSE m[x]]

\* The bytes after _allocate(nbytes, clean) has returned addr.
AllocateBytes(m, addr, nbytes, clean) ==
    IF addr = NULL \/ ~clean
      THEN m
      ELSE IF IsSmall(nbytes)
        THEN cleanse(m, addr, 0, bytes_to_units(nbytes) * UNIT_SIZE)
        ELSE cleanse(m, addr, 0, align_unsigned_to_page(nbytes))

\* The target of a stray store that lands outside the pages followed here.
ELSEWHERE == PageAddr(NumPages + 1)

\* The bytes after _reallocate(&addr, old_nbytes, new_nbytes, clean, ...)
\* has returned r.  wild is where the first word of a direct mapping, read
\* as bm_page->list, points when it is not null.
ReallocateBytes(m, addr, old_nbytes, new_nbytes, clean, g, wild, r) ==
    LET new_num_units == bytes_to_units(new_nbytes)
        old_num_units == bytes_to_units(old_nbytes)
    IN
    IF r.h.terminated \/ ~r.ret \/ old_nbytes = new_nbytes
      THEN m
      ELSE IF addr = NULL
        THEN AllocateBytes(m, r.addr, new_nbytes, clean)
      ELSE IF new_num_units = old_num_units
        THEN IF clean /\ new_nbytes > old_nbytes
               THEN cleanse(m, addr, old_nbytes, new_nbytes)
               ELSE m
      ELSE IF new_num_units < old_num_units
        THEN IF IsSmall(new_nbytes) /\ IsLarge(old_nbytes) /\ r.addr # addr
               THEN \* memcpy(new_block, addr, new_nbytes), then bm_release
                    \* on the mapping: delete_from_list stores through list
                    Let(memcpy(m, r.addr, addr, new_nbytes), LAMBDA m1 :
                        IF g.list = WILD /\ wild # ELSEWHERE
                          THEN Store(m1, wild, SIZEOF_POINTER, 0)
                          ELSE m1)
               ELSE m
      ELSE IF IsSmall(old_nbytes)
        THEN IF r.addr = addr
               THEN IF clean THEN cleanse(m, addr, old_nbytes, new_nbytes) ELSE m
               ELSE Let(memcpy(m, r.addr, addr, old_nbytes), LAMBDA m1 :
                        IF clean
                          THEN cleanse(m1, r.addr, old_nbytes, new_nbytes)
                          ELSE m1)
        ELSE \* mremap carries the pages of the old mapping along
             Let(IF r.addr = addr THEN m
                 ELSE memcpy(m, r.addr, addr, align_unsigned_to_page(old_nbytes)),
                 LAMBDA m1 :
                 IF clean THEN cleanse(m1, r.addr, old_nbytes, new_nbytes) ELSE m1)

\* Calls with the clean flag, and a caller that writes to its blocks.
\* `last` keeps of a call only whether it was made with clean, whether it
\* returned a block, and whether the bytes it had to return zeroed held a
\* value other than zero before.

\* Some byte of [from, to) is not zero.
Dirty(m, from, to) == \E x \in Bytes : from <= x /\ x < to /\ m[x] # 0

ContentCall(op, ret, clean, dirty) ==
    [op |-> op, ret |-> ret, clean |-> clean, dirty |-> dirty]

\* allocate(nbytes, clean), clean drawn from Cleans
AllocateC(S, max_held, Cleans) ==
    /\ ~terminated
    /\ NumHeld < max_held
    /\ \E nbytes \in S, os \in {REFUSE, PLACE} :
         \E r \in {_allocate(Heap, nbytes, os)} : \E clean \in Cleans :
           /\ SetHeap(r.h)
           /\ blocks' = IF r.addr # NULL
                          THEN BagAdd(blocks, [addr |-> r.addr, nbytes |-> nbytes])
                          ELSE blocks
           /\ mem' = Unmapped(AllocateBytes(mem, r.addr, nbytes, clean), r.h)
           /\ last' = ContentCall("allocate", r.addr # NULL, clean,
                                  r.addr # NULL
                                    /\ Dirty(mem, r.addr, r.addr + nbytes))
    /\ UNCHANGED << pc, loc, std, dbg, event >>

\* The caller writes a value other than zero to every byte of one of its
\* blocks.  A store to a page that is not mapped is a fault.
FillC ==
    /\ ~terminated
    /\ \E b \in Held :
         /\ b.nbytes # 0
         /\ IF \A x \in b.addr..(b.addr + b.nbytes - 1) :
                  PageOf(x) \in Pages /\ kind[PageOf(x)] # "free"
              THEN /\ mem' = Store(mem, b.addr, b.nbytes, 1)
                   /\ mem' # mem
                   /\ SetHeap(Heap)
              ELSE /\ SetHeap(Crash(Heap))
                   /\ UNCHANGED mem
         /\ last' = NoCall
    /\ UNCHANGED << blocks, pc, loc, std, dbg, event >>

\* The first word of the block at addr is not zero.
FirstWordSet(addr) ==
    \E x \in Bytes : addr <= x /\ x < addr + SIZEOF_POINTER /\ mem[x] # 0

\* reallocate(&addr, old_nbytes, new_nbytes, clean, &addr_changed) of a held
\* block with its size, clean drawn from Cleans.
ReallocateC(S, Cleans) ==
    /\ ~terminated
    /\ \E b \in Held, new_nbytes \in S :
         \* the operating system answers only the calls that are made: none
         \* when a small block keeps its units or gives some back, mmap when
         \* a small block grows, mmap or mremap when a large block is involved
         \E os \in IF IsLarge(b.nbytes) \/ IsLarge(new_nbytes)
                     THEN {REFUSE, PLACE, IN_PLACE}
                     ELSE IF bytes_to_units(new_nbytes) > bytes_to_units(b.nbytes)
                            THEN {REFUSE, PLACE}
                            ELSE {PLACE} :
         \E g \in IF IsLarge(b.nbytes) /\ IsSmall(new_nbytes)
                    THEN { x \in Garbage : (x.list = WILD) <=> FirstWordSet(b.addr) }
                    ELSE {NoGarbage},
            ub_traps \in IF IsSmall(b.nbytes) /\ IsSmall(new_nbytes)
                              /\ new_nbytes > b.nbytes /\ os = REFUSE
                           THEN BOOLEAN ELSE {FALSE} :
           \E r \in {_reallocate(Heap, b.addr, b.nbytes, new_nbytes,
                                 os, g, ub_traps)} :
             \* a first word that is not null points outside the pages or,
             \* the caller's bytes being any bytes, at the block returned
             \E wild \in IF g.list = WILD /\ r.ret /\ ~r.h.terminated
                           THEN {ELSEWHERE, r.addr}
                           ELSE {ELSEWHERE},
                clean \in Cleans :
               /\ SetHeap(r.h)
               /\ blocks' = IF r.h.terminated \/ ~r.ret
                              THEN blocks
                              ELSE BagAdd(BagDel(blocks, b),
                                          [addr |-> r.addr, nbytes |-> new_nbytes])
               /\ mem' = Unmapped(ReallocateBytes(mem, b.addr, b.nbytes,
                                                  new_nbytes, clean, g, wild, r),
                                  r.h)
               /\ last' = ContentCall("reallocate", r.ret /\ ~r.h.terminated, clean,
                                      r.ret /\ Dirty(mem, r.addr + b.nbytes,
                                                     r.addr + new_nbytes))
    /\ UNCHANGED << pc, loc, std, dbg, event >>

\* release(&addr, nbytes) of a held block with its size.
ReleaseC ==
    /\ ~terminated
    /\ \E b \in Held :
         /\ b.nbytes # 0
         /\ \E r \in {_release(Heap, b.addr, b.nbytes)} :
              /\ SetHeap(r.h)
              /\ blocks' = IF r.h.terminated THEN blocks ELSE BagDel(blocks, b)
              /\ mem' = Unmapped(mem, r.h)
              /\ last' = NoCall
    /\ UNCHANGED << pc, loc, std, dbg, event >>

\* Sizes in bytes: less than a unit, two units less a half word, one page
\* mapped directly, more than a page.
ContentSizes ==
    { UNIT_SIZE - CELL, 2 * UNIT_SIZE - CELL,
      max_data_units * UNIT_SIZE, sys_page_size + CELL }

MaxHeldContent == 2

\* The callers have written their data to every block they hold.
Written ==
    \A b \in Held : \A x \in Bytes :
        (b.addr <= x /\ x < b.addr + b.nbytes) => mem[x] # 0

\* A caller writes its data to a block before the next call is made.
NextContent ==
    \/ (NothingLost /\ Written
          /\ AllocateC(ContentSizes, MaxHeldContent, BOOLEAN))
    \/ FillC
    \/ (NothingLost /\ Written /\ ReallocateC(ContentSizes, BOOLEAN))
    \/ (Written /\ ReleaseC)

SpecContent == Init /\ [][NextContent]_vars

\* The blocks a step takes from the callers and the blocks it gives them.
Lost == { b \in Held : b \notin DOMAIN blocks' \/ blocks'[b] < blocks[b] }

Gained == { b \in DOMAIN blocks' : b \notin Held \/ blocks'[b] > blocks[b] }

\* Bytes [from, to) of the block at dst after the step are bytes [from, to)
\* of the block at src before it.
SameBytes(dst, src, from, to) ==
    \A i \in from..(to - 1) : i % CELL = 0 => mem'[dst + i] = mem[src + i]

\* Bytes [from, to) of the block at addr are zero after the step.
ZeroBytes(addr, from, to) ==
    \A i \in from..(to - 1) : i % CELL = 0 => mem'[addr + i] = 0

\* C14: every reallocate of a non-empty block that returns true leaves, in
\* bytes [0, min(old_nbytes, new_nbytes)) of the block at *addr_ptr, the bytes
\* the old block held before the call.
C14_PreservesContent ==
    [][(last'.op = "reallocate" /\ last'.ret) =>
         \A o \in Lost, b \in Gained :
             SameBytes(b.addr, o.addr, 0, Min(o.nbytes, b.nbytes))]_vars

\* C15: allocate with clean returns a block whose bytes [0, nbytes) are
\* zero, a growing reallocate with clean that returns true leaves bytes
\* [old_nbytes, new_nbytes) of the block zero, and neither changes a byte of
\* another block a caller holds.
C15_Clean ==
    [][(last'.op \in {"allocate", "reallocate"} /\ last'.clean /\ last'.ret) =>
         /\ last'.op = "allocate" =>
              /\ \A b \in Gained : ZeroBytes(b.addr, 0, b.nbytes)
              /\ \A c \in Held : SameBytes(c.addr, c.addr, 0, c.nbytes)
         /\ last'.op = "reallocate" =>
              \A o \in Lost, b \in Gained :
                  b.nbytes > o.nbytes =>
                    /\ ZeroBytes(b.addr, o.nbytes, b.nbytes)
                    /\ \A c \in Held \ {o} :
                           SameBytes(c.addr, c.addr, 0, c.nbytes)]_vars

\* A growing reallocate with clean has returned a block whose new bytes held
\* other values before, while another block is held.
C15_Witness ==
    /\ last.op = "reallocate"
    /\ last.clean
    /\ last.ret
    /\ last.dirty
    /\ ~terminated
    /\ NumHeld = MaxHeldContent

\* ---------------------------------------------------------------- debug adaptor
\* A region is MemBlockInfo, BUBBLEWRAP bytes, the block, BUBBLEWRAP bytes.
\* lower, data and upper are its bytes after MemBlockInfo, each counted
\* from 1; addr names the block.

DbgBytes == {0, CANARY}

ZoneBytes == 1..BUBBLEWRAP

\* A faulty check_region that looks at the bytes above the block only.
check_region_upper_only(r) ==
    Cardinality({ i \in ZoneBytes : r.upper[i] # CANARY }) # 0

\* TRUE when check_region calls exit(1).
check_region(r) ==
    LET num_damaged_lower == Cardinality({ i \in ZoneBytes : r.lower[i] # CANARY })
        num_damaged_upper == Cardinality({ i \in ZoneBytes : r.upper[i] # CANARY })
    IN  num_damaged_upper # 0 \/ num_damaged_lower # 0

\* malloc's choice among the places it has free.
FreeSlot(d) == CHOOSE s \in DbgSlots : d.region[s].addr = NULL

\* _allocate(nbytes, clean) of the debug adaptor; ok is malloc's answer and
\* junk the bytes malloc leaves in the block.
dbg_allocate(d, nbytes, clean, ok, junk) ==
    IF ~ok
      THEN [d |-> d, addr |-> NULL]
      ELSE LET s == FreeSlot(d) IN
           [d |-> [d EXCEPT
                     !.region[s] =
                         [addr    |-> s,
                          nbytes  |-> nbytes,
                          lower   |-> [i \in ZoneBytes |-> CANARY],
                          data    |-> [i \in 1..nbytes |->
                                         IF clean THEN 0 ELSE junk],
                          upper   |-> [i \in ZoneBytes |-> CANARY],
                          written |-> {}],
                     !.blocks_allocated = atomic_fetch_add(@, 1)],
            addr |-> s]

\* _release(&addr, nbytes) of the debug adaptor on the block at s.
dbg_release(d, s) ==
    IF check_region(d.region[s])
      THEN [d EXCEPT !.dead = TRUE]
      ELSE [d EXCEPT !.region[s] = NoRegion,
                     !.blocks_allocated = atomic_fetch_sub(@, 1)]

\* memcpy(new_addr, addr, old_nbytes): the bytes beyond the new block go to
\* the red zone above it.
dbg_memcpy(new, old) ==
    [new EXCEPT
       !.data  = [i \in 1..new.nbytes |->
                    IF i <= old.nbytes THEN old.data[i] ELSE @[i]],
       !.upper = [i \in ZoneBytes |->
                    IF new.nbytes + i <= old.nbytes
                      THEN old.data[new.nbytes + i] ELSE @[i]]]

\* _reallocate(&addr, old_nbytes, new_nbytes, clean, ...) of the debug
\* adaptor on the block at s.
dbg_reallocate(d, s, new_nbytes, clean, ok, junk) ==
    LET old == d.region[s] IN
    IF old.nbytes = new_nbytes
      THEN [d |-> d, ret |-> TRUE, addr |-> s]
      ELSE Let(dbg_allocate(d, new_nbytes, FALSE, ok, junk), LAMBDA a :
           IF a.addr = NULL
             THEN [d |-> d, ret |-> FALSE, addr |-> s]
             ELSE Let([a.d EXCEPT !.region[a.addr] = dbg_memcpy(@, old)],
                  LAMBDA d1 :
                  Let(dbg_release(d1, s), LAMBDA d2 :
                  IF d2.dead
                    THEN [d |-> d2, ret |-> FALSE, addr |-> s]
                    ELSE IF ~clean
                      THEN [d |-> d2, ret |-> TRUE, addr |-> a.addr]
                      ELSE IF new_nbytes < old.nbytes
                        \* memset of new_nbytes - old_nbytes bytes, an
                        \* unsigned difference below zero: a fault
                        THEN [d |-> [d2 EXCEPT !.dead = TRUE],
                              ret |-> FALSE, addr |-> s]
                        ELSE [d |-> [d2 EXCEPT !.region[a.addr].data =
                                       [i \in 1..new_nbytes |->
                                          IF i > old.nbytes THEN 0 ELSE @[i]]],
                              ret |-> TRUE, addr |-> a.addr])))

\* The variables of the other allocators.
dbg_frame == << kind, bitmap, list, next, prev, superblock, num_bm_pages,
                blocks_allocated, lock, terminated, blocks, last, pc, loc,
                std, mem, event >>

DbgHeld == { s \in DbgSlots : dbg.region[s].addr # NULL }

\* Some byte of a red zone of r is not the byte the adaptor put there.
Damaged(r) ==
    \E i \in ZoneBytes : r.lower[i] # CANARY \/ r.upper[i] # CANARY

DbgSizes == {SIZEOF_WORD, 2 * SIZEOF_WORD}

\* The bytes of a red zone a caller writes to: the one next to the block and
\* the one farthest from it.
ZoneEdges == {1, BUBBLEWRAP}

DbgAllocate ==
    /\ ~dbg.dead
    /\ \E nbytes \in DbgSizes, clean \in BOOLEAN, junk \in DbgBytes,
          ok \in IF DbgHeld = DbgSlots THEN {FALSE} ELSE BOOLEAN :
         \E a \in {dbg_allocate(dbg, nbytes, clean, ok, junk)} :
           dbg' = [a.d EXCEPT !.last = [DbgNoCall EXCEPT !.op = "allocate",
                                                          !.ret = a.addr # NULL]]
    /\ UNCHANGED dbg_frame

\* A caller stores v to byte i of the red zone below or above its block.
DbgWrite ==
    /\ ~dbg.dead
    /\ \E s \in DbgHeld, zone \in {"lower", "upper"}, i \in ZoneEdges,
          v \in DbgBytes :
         dbg' = [dbg EXCEPT
                   !.region[s] =
                       [IF zone = "lower"
                          THEN [@ EXCEPT !.lower[i] = v]
                          ELSE [@ EXCEPT !.upper[i] = v]
                        EXCEPT !.written = @ \cup {zone}],
                   !.last = DbgNoCall]
    /\ UNCHANGED dbg_frame

\* release(&addr, nbytes) of a held block with its size.
DbgRelease ==
    /\ ~dbg.dead
    /\ \E s \in DbgHeld :
         \E d \in {dbg_release(dbg, s)} :
           dbg' = [d EXCEPT !.last = [op      |-> "release",
                                      ret     |-> ~d.dead,
                                      damaged |-> Damaged(dbg.region[s]),
                                      written |-> dbg.region[s].written]]
    /\ UNCHANGED dbg_frame

\* reallocate(&addr, old_nbytes, new_nbytes, clean, &addr_changed) of a held
\* block with its size.
DbgReallocate ==
    /\ ~dbg.dead
    /\ \E s \in DbgHeld, new_nbytes \in DbgSizes, clean \in BOOLEAN,
          junk \in DbgBytes,
          ok \in IF DbgHeld = DbgSlots THEN {FALSE} ELSE BOOLEAN :
         \E r \in {dbg_reallocate(dbg, s, new_nbytes, clean, ok, junk)} :
           dbg' = [r.d EXCEPT !.last = [op      |-> "reallocate",
                                        ret     |-> r.ret,
                                        damaged |-> Damaged(dbg.region[s]),
                                        written |-> dbg.region[s].written]]
    /\ UNCHANGED dbg_frame

NextDbg ==
    \/ DbgAllocate
    \/ DbgWrite
    \/ DbgRelease
    \/ DbgReallocate

SpecDbg == Init /\ [][NextDbg]_vars

\* C16, as stated: when a caller has written to a red zone of a block, with
\* any byte value, release of the block terminates the process.
C16_AnyWrite ==
    (dbg.last.op = "release" /\ dbg.last.written # {}) => dbg.dead

\* C16: release of a block terminates the process exactly when, at the
\* call, some byte of the red zone below or above the block is not the byte
\* the adaptor filled it with.
C16_RedZones ==
    dbg.last.op = "release" => (dbg.dead <=> dbg.last.damaged)

\* A release has terminated the process on a zone the caller wrote to.
C16_Witness ==
    /\ dbg.last.op = "release"
    /\ dbg.last.written # {}
    /\ dbg.last.damaged
    /\ dbg.dead

\* ---------------------------------------------------------------- C19, C20
\* The pages reached from p in heap h by following next, n steps at most.
RECURSIVE WalkIn(_, _, _)
WalkIn(h, p, n) ==
    IF p = NULL \/ n = 0
      THEN {}
      ELSE {p} \cup (IF p \in Pages THEN WalkIn(h, h.next[p], n - 1) ELSE {})

\* The superblock indices whose list reaches bm_page in heap h.
BucketsOf(h, bm_page) ==
    { k \in 0..max_data_units : bm_page \in WalkIn(h, h.superblock[k], NumPages) }

\* C19: when bm_grow returns false on a held block, for want of free units
\* after it, the bitmap of the page is what it was and the page is linked in
\* the bucket it was linked in before the call.
C19_FailedGrow ==
    ~terminated =>
        \A b \in Held :
          (IsSmall(b.nbytes) /\ b.nbytes # 0 /\ b.addr # bm_page_from_addr(b.addr)) =>
            \A new_num_units \in (bytes_to_units(b.nbytes) + 1)..(max_data_units - 1) :
              LET bm_page == PageOf(b.addr)
                  r == bm_grow(Heap, bm_page,
                               ptrdiff_to_units(b.addr, bm_page_from_addr(b.addr)),
                               bytes_to_units(b.nbytes), new_num_units, FALSE)
              IN  (~r.ok /\ ~r.h.terminated) =>
                    /\ r.h.bitmap[bm_page] = bitmap[bm_page]
                    /\ BucketsOf(r.h, bm_page) = BucketsOf(Heap, bm_page)

\* C20: between calls every mapped BmPage whose longest free block is k is
\* reached from superblock[k] and from no other entry.
C20_Complete ==
    ~terminated =>
        \A p \in Pages :
          kind[p] = "bm" =>
            BucketsOf(Heap, p) = {find_longest_free_block(bitmap[p])}

\* ---------------------------------------------------------------- the mutex
\* Threads calling allocate, release and reallocate for small blocks, with
\* the calls of mtx_lock and mtx_unlock followed.  A thread takes one step
\* to acquire the mutex (pc "..._lock", enabled while the mutex is free),
\* one step for the section that ends with mtx_unlock (pc "..._cs"), and
\* one step for each stretch of work it does between two sections.  `lock`
\* is the thread the mutex is locked by, or NULL.

\* The local variables of a call in progress.
LkFrame(op, addr, old_num_units, num_units) ==
    [op |-> op, addr |-> addr, old_num_units |-> old_num_units,
     num_units |-> num_units, bm_page |-> NULL, offset |-> 0, lfb |-> 0,
     fresh |-> FALSE]

\* A faulty mtx_unlock that leaves the mutex locked.
mtx_unlock_never(h) == h

\* mtx_unlock(&lock); on a mutex the caller does not hold it frees the
\* mutex all the same.
mtx_unlock(h) == [h EXCEPT !.lock = NULL]

\* Thread t goes on at p with locals l, the heap being h and the blocks
\* held B; process termination stops every thread where it is.
LkStep(t, h, p, l, B) ==
    /\ SetHeap(h)
    /\ IF h.terminated
         THEN UNCHANGED << pc, loc, blocks >>
         ELSE /\ pc' = PcOf(t, p)
              /\ loc' = [loc EXCEPT ![t] = l]
              /\ blocks' = B
    /\ UNCHANGED << last, std, mem, dbg, event >>

LkOldBlock(t) ==
    [addr |-> loc[t].addr, nbytes |-> loc[t].old_num_units * UNIT_SIZE]

LkNewBlock(t) ==
    [addr |-> PageAddr(loc[t].bm_page) + loc[t].offset * UNIT_SIZE,
     nbytes |-> loc[t].num_units * UNIT_SIZE]

LkInFlight == Cardinality({ u \in Threads : pc[u] # "idle" })

\* The pages the operating system grants.
MaxLkPages == 2

\* The units a block is grown to at most.
MaxLkUnits == 2

\* A thread enters allocate, release or reallocate (a grow) and reaches the
\* first mtx_lock of the call.
LkCall(t, S, max_held) ==
    /\ ~terminated
    /\ pc[t] = "idle"
    /\ \/ \E nbytes \in S :
            /\ NumHeld + LkInFlight < max_held
            /\ LkStep(t, Heap, "fap_lock",
                      LkFrame("allocate", NULL, 0, bytes_to_units(nbytes)), blocks)
       \/ \E b \in Held :
            LkStep(t, Heap, "grab_lock",
                   LkFrame("release", b.addr, bytes_to_units(b.nbytes), 0),
                   BagDel(blocks, b))
       \/ \E b \in Held : \E new_nbytes \in { b.nbytes + n : n \in S } :
            /\ bytes_to_units(new_nbytes) <= MaxLkUnits
            /\ LkStep(t, Heap, "grow_lock",
                      LkFrame("reallocate", b.addr, bytes_to_units(b.nbytes),
                              bytes_to_units(new_nbytes)),
                      BagDel(blocks, b))

LockSites == {"fap_lock", "add_lock", "grab_lock", "readd_lock", "grow_lock",
              "regrow_lock"}

Sections == {"fap_cs", "add_cs", "grab_cs", "readd_cs", "grow_cs", "regrow_cs"}

SectionOf(site) ==
    CASE site = "fap_lock"    -> "fap_cs"
      [] site = "add_lock"    -> "add_cs"
      [] site = "grab_lock"   -> "grab_cs"
      [] site = "readd_lock"  -> "readd_cs"
      [] site = "grow_lock"   -> "grow_cs"
      [] site = "regrow_lock" -> "regrow_cs"

\* mtx_lock(&lock) returns.
LkAcquire(t) ==
    /\ ~terminated
    /\ pc[t] \in LockSites
    /\ lock = NULL
    /\ LkStep(t, [Heap EXCEPT !.lock = t], SectionOf(pc[t]), loc[t], blocks)

\* The steps of bm_allocate.
LkAllocate(t) ==
    /\ ~terminated
    /\ \/ /\ pc[t] = "fap_cs"
          /\ \E r \in {find_available_page(Heap, loc[t].num_units)} :
               LkStep(t, mtx_unlock(r.h),
                      IF r.bm_page # NULL THEN "alloc_work" ELSE "alloc_map",
                      [loc[t] EXCEPT !.bm_page = r.bm_page], blocks)
       \/ /\ pc[t] = "alloc_work"
          /\ IF ~Mapped(Heap, loc[t].bm_page)
               THEN LkStep(t, Crash(Heap), pc[t], loc[t], blocks)
               ELSE \E offset \in {find_free_block(bitmap[loc[t].bm_page],
                                                   loc[t].num_units)} :
                      IF offset = 0
                        THEN LkStep(t, Crash(Heap), pc[t], loc[t], blocks)
                        ELSE \E bm \in {set_bits(bitmap[loc[t].bm_page], offset,
                                                 loc[t].num_units)} :
                               LkStep(t, SetBitmap(Heap, loc[t].bm_page, bm),
                                      "add_lock",
                                      [loc[t] EXCEPT
                                         !.offset = offset,
                                         !.lfb = find_longest_free_block(bm)],
                                      blocks)
       \/ /\ pc[t] = "alloc_map"
          /\ \E os \in IF NumBmPagesMapped < MaxLkPages
                        THEN {REFUSE, PLACE} ELSE {REFUSE} :
               \E m \in {call_mmap(Heap, sys_page_size, os, "bm")} :
                 IF m.addr = NULL
                   THEN LkStep(t, m.h, "idle", NoLoc,
                               IF loc[t].op = "reallocate"
                                 THEN BagAdd(blocks, LkOldBlock(t))
                                 ELSE blocks)
                   ELSE LkStep(t, SetBitmap(m.h, PageOf(m.addr),
                                            set_bits(EmptyBitmap, 0,
                                                     bm_page_header_size_in_units
                                                       + loc[t].num_units)),
                               "add_lock",
                               [loc[t] EXCEPT
                                  !.bm_page = PageOf(m.addr),
                                  !.offset = bm_page_header_size_in_units,
                                  !.lfb = max_data_units - loc[t].num_units,
                                  !.fresh = TRUE],
                               blocks)
       \/ /\ pc[t] = "add_cs"
          /\ \E h \in {mtx_unlock(add_to_superblock_entry(Heap, loc[t].bm_page,
                                                          loc[t].lfb))} :
               \E h1 \in {CountBlock(IF loc[t].fresh
                                       THEN [h EXCEPT !.num_bm_pages =
                                               atomic_fetch_add(@, 1)]
                                       ELSE h)} :
                 IF loc[t].op = "reallocate"
                   \* memcpy, then _release(&addr, old_nbytes)
                   THEN LkStep(t, h1, "grab_lock", loc[t], blocks)
                   ELSE LkStep(t, h1, "idle", NoLoc,
                               BagAdd(blocks, LkNewBlock(t)))

\* The call returns after bm_release.
LkReleased(t, h) ==
    LkStep(t, [h EXCEPT !.blocks_allocated = atomic_fetch_sub(@, 1)],
           "idle", NoLoc,
           IF loc[t].op = "reallocate"
             THEN BagAdd(blocks, LkNewBlock(t))
             ELSE blocks)

\* The steps of bm_release.
LkRelease(t) ==
    /\ ~terminated
    /\ \/ /\ pc[t] = "grab_cs"
          /\ LkStep(t, mtx_unlock(grab_superblock_page(Heap, PageOf(loc[t].addr))),
                    "rel_work", loc[t], blocks)
       \/ /\ pc[t] = "rel_work"
          /\ IF ~Mapped(Heap, PageOf(loc[t].addr))
               THEN LkStep(t, Crash(Heap), pc[t], loc[t], blocks)
               ELSE \E bm \in {clear_bits(bitmap[PageOf(loc[t].addr)],
                                          ptrdiff_to_units(loc[t].addr,
                                              bm_page_from_addr(loc[t].addr)),
                                          loc[t].old_num_units)} :
                      \E lfb \in {find_longest_free_block(bm)} :
                        IF lfb < max_data_units
                          THEN LkStep(t, SetBitmap(Heap, PageOf(loc[t].addr), bm),
                                      "readd_lock", [loc[t] EXCEPT !.lfb = lfb],
                                      blocks)
                          ELSE LkReleased(t,
                                 [call_munmap(Heap, bm_page_from_addr(loc[t].addr),
                                              sys_page_size)
                                    EXCEPT !.num_bm_pages = atomic_fetch_sub(@, 1)])
       \/ /\ pc[t] = "readd_cs"
          /\ LkReleased(t, mtx_unlock(add_to_superblock_entry(
                                          Heap, PageOf(loc[t].addr), loc[t].lfb)))

\* The steps of bm_grow; when it returns false the call goes on with
\* _allocate for the new block.
LkGrow(t) ==
    /\ ~terminated
    /\ \/ /\ pc[t] = "grow_cs"
          /\ LkStep(t, mtx_unlock(grab_superblock_page(Heap, PageOf(loc[t].addr))),
                    "grow_try", loc[t], blocks)
       \/ /\ pc[t] = "grow_try"
          /\ IF ~Mapped(Heap, PageOf(loc[t].addr))
               THEN LkStep(t, Crash(Heap), pc[t], loc[t], blocks)
               ELSE LET bm_page   == PageOf(loc[t].addr)
                        offset    == ptrdiff_to_units(loc[t].addr,
                                         bm_page_from_addr(loc[t].addr))
                        increment == loc[t].num_units - loc[t].old_num_units
                        length    == count_zero_bits(bitmap[bm_page],
                                         offset + loc[t].old_num_units, increment)
                    IN
                    IF length < increment
                      \* mtx_unlock of a mutex the thread does not hold
                      THEN \E ub_traps \in BOOLEAN :
                             IF ub_traps
                               THEN LkStep(t, Crash(Heap), pc[t], loc[t], blocks)
                               ELSE LkStep(t, mtx_unlock(Heap), "fap_lock",
                                           loc[t], blocks)
                      ELSE \E bm \in {set_bits(bitmap[bm_page],
                                               offset + loc[t].old_num_units,
                                               increment)} :
                             LkStep(t, SetBitmap(Heap, bm_page, bm), "regrow_lock",
                                    [loc[t] EXCEPT
                                       !.lfb = find_longest_free_block(bm)],
                                    blocks)
       \/ /\ pc[t] = "regrow_cs"
          /\ LkStep(t, mtx_unlock(add_to_superblock_entry(
                                      Heap, PageOf(loc[t].addr), loc[t].lfb)),
                    "idle", NoLoc,
                    BagAdd(blocks, [addr |-> loc[t].addr,
                                    nbytes |-> loc[t].num_units * UNIT_SIZE]))

LkSizes == { UNIT_SIZE }

MaxHeldLk == 2

\* New calls are explored only while the counters have not wrapped and
\* every page is in its bucket; the calls in progress run to their end.
LkCountersInRange ==
    /\ num_bm_pages <= NumPages
    /\ blocks_allocated <= MaxHeldLk

NextLock ==
    \E t \in Threads :
      \/ (LkCountersInRange /\ DirectorySound /\ LkCall(t, LkSizes, MaxHeldLk))
      \/ LkAcquire(t)
      \/ LkAllocate(t)
      \/ LkRelease(t)
      \/ LkGrow(t)

SpecLock == Init /\ [][NextLock]_vars

\* The scheduler is fair: a thread that can run does run, and a thread
\* waiting in mtx_lock gets the mutex if it is free again and again.
LkFair ==
    \A t \in Threads :
      /\ WF_vars(LkAllocate(t) \/ LkRelease(t) \/ LkGrow(t))
      /\ SF_vars(LkAcquire(t))

SpecLockFair == SpecLock /\ LkFair

\* C17: every call returns or the process terminates, and a thread that
\* has acquired the mutex gets to its mtx_unlock, so that no thread waits in
\* mtx_lock for ever.
C17_Progress ==
    \A t \in Threads :
      /\ (pc[t] # "idle") ~> (pc[t] = "idle" \/ terminated)
      /\ (pc[t] \in Sections) ~> (pc[t] \notin Sections \/ terminated)

\* A thread waits in mtx_lock while the other one is in its section.
C17_Witness ==
    \E t, u \in Threads :
      /\ pc[t] \in LockSites
      /\ pc[u] \in Sections
      /\ lock = u
      /\ ~terminated

\* Thread t calls mtx_unlock in the step: it ends a section, in which it
\* has read and written the superblock and the links of pages, or it
\* leaves bm_grow through the branch that returns false.
Unlocks(t) ==
    /\ ~terminated'
    /\ \/ pc[t] \in Sections /\ pc'[t] # pc[t]
       \/ pc[t] = "grow_try" /\ pc'[t] = "fap_lock"

\* C18: a thread that unlocks the mutex holds it, on every path of
\* allocate, release and reallocate, the failed grow in place included; so
\* the superblock and the links are only read and written under the mutex
\* and no thread frees the mutex another one has locked.
C18_Discipline ==
    [][\A t \in Threads : Unlocks(t) => lock = t]_vars

\* ---------------------------------------------------------------- C21, C22
\* superblock[k] of heap h is a circular doubly-linked list of BmPages:
\* next and prev are inverse on the pages reached from the head, and each
\* of them has list == &superblock[k].
ListOk(h, k) ==
    LET ring == WalkIn(h, h.superblock[k], NumPages)
    IN  \A p \in ring :
          /\ p \in Pages
          /\ h.kind[p] = "bm"
          /\ h.list[p] = k
          /\ h.next[p] \in ring
          /\ h.prev[p] \in ring
          /\ h.prev[h.next[p]] = p
          /\ h.next[h.prev[p]] = p

\* C21: delete_from_list on a page of a well-formed list of n pages leaves
\* the other n - 1 pages reachable from the entry, in their order; the
\* entry is empty only when n is 1, and with n = 2 the other page is the
\* head.
C21_DetachOne ==
    ~terminated =>
        \A k \in 0..max_data_units :
          ListOk(Heap, k) =>
            \A p \in Bucket(k) :
              LET r      == delete_from_list(Heap, p)
                  before == Bucket(k)
                  after  == WalkIn(r, r.superblock[k], NumPages)
              IN  /\ ~r.terminated
                  /\ after = before \ {p}
                  /\ (r.superblock[k] = NULL) <=> (before = {p})
                  /\ \A q \in after :
                       r.next[q] = IF next[q] = p THEN next[p] ELSE next[q]

\* C22 (as stated).  Between calls every superblock entry heads a
\* well-formed circular doubly-linked list of pages whose list field names
\* that entry, so that no page is in two lists or twice in one.
C22_WellFormed ==
    ~terminated => \A k \in 0..max_data_units : ListOk(Heap, k)

\* ---------------------------------------------------------------- C23
\* C23 (as stated).  When reallocate moves a block held in a direct mapping
\* into a small block, the call returns with every page of the old mapping
\* unmapped, and num_bm_pages grows by the page mapped for the new block
\* at most.
C23_LargeToSmall ==
    [][(/\ last'.op = "reallocate"
        /\ last'.addr_in # NULL
        /\ IsLarge(last'.old_nbytes)
        /\ IsSmall(last'.new_nbytes)
        /\ last'.changed)
       => /\ ~terminated'
          /\ \A p \in RangePages(last'.addr_in,
                                 align_unsigned_to_page(last'.old_nbytes)) :
               kind'[p] = "free"
          /\ num_bm_pages' \in {num_bm_pages, num_bm_pages + 1}]_vars

\* ---------------------------------------------------------------- C24
\* C24 (as stated).  Between calls superblock[max_data_units] is empty and
\* every mapped BmPage has a data unit in use.
C24_NoEmptyPage ==
    ~terminated =>
        /\ superblock[max_data_units] = NULL
        /\ \A p \in Pages :
             kind[p] = "bm" =>
               count_zero_bits(bitmap[p], bm_page_header_size_in_units,
                               max_data_units) < max_data_units

\* ---------------------------------------------------------------- C25
\* C25 (as stated).  find_available_page(n) returns the head of the
\* non-empty entry with the smallest index k in n..max_data_units and
\* takes that page, and only that page, out of its list, so that the page
\* attached after it becomes the head; it returns no page, and changes
\* nothing, exactly when all those entries are empty.
C25_FindAvailable ==
    ~terminated =>
        \A n \in 1..max_data_units :
          LET r     == find_available_page(Heap, n)
              found == { k \in n..max_data_units : superblock[k] # NULL }
          IN  IF found = {}
                THEN r.bm_page = NULL /\ r.h = Heap
                ELSE LET k == CHOOSE x \in found : \A y \in found : x <= y
                     IN  ListOk(Heap, k) =>
                           /\ r.bm_page = superblock[k]
                           /\ ~r.h.terminated
                           /\ WalkIn(r.h, r.h.superblock[k], NumPages)
                                = Bucket(k) \ {r.bm_page}
                           /\ r.h.superblock[k] =
                                IF Bucket(k) = {r.bm_page}
                                  THEN NULL ELSE next[r.bm_page]

\* ---------------------------------------------------------------- C26
\* The block at addr is, after the step, in the data area of a BmPage.
PlacedSmall(addr) ==
    /\ PageOf(addr) \in Pages
    /\ kind'[PageOf(addr)] = "bm"
    /\ addr # bm_page_from_addr(addr)

\* The block of nbytes bytes at addr is, after the step, a direct mapping
\* of ceil(nbytes / sys_page_size) pages.
PlacedLarge(addr, nbytes) ==
    /\ addr = bm_page_from_addr(addr)
    /\ Cardinality(RangePages(addr, align_unsigned_to_page(nbytes)))
         = (nbytes + sys_page_size - 1) \div sys_page_size
    /\ \A p \in RangePages(addr, align_unsigned_to_page(nbytes)) :
         kind'[p] = "large"

\* The step leaves every BmPage, the superblock and num_bm_pages as they
\* were and makes no new BmPage.
NoBmPageTouched ==
    /\ superblock' = superblock
    /\ num_bm_pages' = num_bm_pages
    /\ \A p \in Pages :
         /\ (kind'[p] = "bm") <=> (kind[p] = "bm")
         /\ kind[p] = "bm" =>
              /\ bitmap'[p] = bitmap[p]
              /\ list'[p] = list[p]
              /\ next'[p] = next[p]
              /\ prev'[p] = prev[p]

\* C26: allocate(0) returns no block; an allocate that succeeds returns a
\* block in the data area of a BmPage when its size is below
\* max_data_units units and otherwise a direct mapping of
\* ceil(nbytes / sys_page_size) pages, touching no BmPage; a reallocate
\* that moves the block places the new one by the same threshold.
C26_Classification ==
    [][/\ (last'.op = "allocate" /\ last'.new_nbytes = 0) => ~last'.ret
       /\ (/\ last'.op \in {"allocate", "reallocate"}
           /\ last'.ret
           /\ ~terminated'
           /\ last'.new_nbytes >= 1
           /\ (last'.op = "reallocate" => last'.changed))
          => /\ IF bytes_to_units(last'.new_nbytes) < max_data_units
                  THEN PlacedSmall(last'.addr)
                  ELSE PlacedLarge(last'.addr, last'.new_nbytes)
             /\ (last'.op = "allocate" /\ IsLarge(last'.new_nbytes))
                  => NoBmPageTouched]_vars

\* allocate of exactly max_data_units units has returned a direct mapping
\* while a BmPage is mapped.
C26_Witness ==
    /\ last.op = "allocate"
    /\ last.ret
    /\ bytes_to_units(last.new_nbytes) = max_data_units
    /\ kind[PageOf(last.addr)] = "large"
    /\ \E p \in Pages : kind[p] = "bm"

\* ---------------------------------------------------------------- C27
\* Block b is a small block in the data area of a mapped BmPage and the
\* units that a block of new_nbytes bytes needs after it are inside the
\* page and free.
CanGrowInPlace(b, new_nbytes) ==
    LET offset == ptrdiff_to_units(b.addr, bm_page_from_addr(b.addr))
        old_u  == bytes_to_units(b.nbytes)
        new_u  == bytes_to_units(new_nbytes)
    IN  /\ b.nbytes >= 1
        /\ IsSmall(b.nbytes)
        /\ IsSmall(new_nbytes)
        /\ new_u > old_u
        /\ InDataArea(b.addr, new_u)
        /\ \A i \in (offset + old_u)..(offset + new_u - 1) :
             bitmap[PageOf(b.addr)][i] = 0

\* C27 (as stated).  Between calls, reallocate of a held small block to a
\* larger small size whose extra units are free on the page returns true
\* with the address unchanged and addr_changed false, sets exactly those
\* bits, leaves blocks_allocated and num_bm_pages alone, and leaves the
\* page linked in the bucket of its new longest free block.
C27_GrowInPlace ==
    ~terminated =>
        \A b \in Held, new_nbytes \in SmallSizes, ub_traps \in BOOLEAN :
          CanGrowInPlace(b, new_nbytes) =>
            LET bm_page == PageOf(b.addr)
                offset  == ptrdiff_to_units(b.addr, bm_page_from_addr(b.addr))
                old_u   == bytes_to_units(b.nbytes)
                new_u   == bytes_to_units(new_nbytes)
                r == _reallocate(Heap, b.addr, b.nbytes, new_nbytes, PLACE,
                                 NoGarbage, ub_traps)
            IN  /\ ~r.h.terminated
                /\ r.ret
                /\ r.addr = b.addr
                /\ ~r.changed
                /\ r.h.bitmap[bm_page]
                     = WriteRun(bitmap[bm_page], offset + old_u, new_u - old_u, 1)
                /\ r.h.blocks_allocated = blocks_allocated
                /\ r.h.num_bm_pages = num_bm_pages
                /\ find_longest_free_block(r.h.bitmap[bm_page])
                     \in BucketsOf(r.h, bm_page)

\* ---------------------------------------------------------------- C28, C29
\* The scans of one page, for every bitmap whose header bits are set.

\* The bitmaps of a page: the units of the header are marked used.
HeaderBitmaps ==
    { bm \in [Slots -> {0, 1}] :
        \A i \in 0..(bm_page_header_size_in_units - 1) : bm[i] = 1 }

\* The page under scan is page 1, mapped and taken out of the superblock,
\* with a bitmap of the set Bitmaps.
ScanInit(Bitmaps) ==
    /\ \E bm \in Bitmaps :
         bitmap = [p \in Pages |-> IF p = 1 THEN bm ELSE EmptyBitmap]
    /\ kind = [p \in Pages |-> IF p = 1 THEN "bm" ELSE "free"]
    /\ list = [p \in Pages |-> NOLIST]
    /\ next = [p \in Pages |-> NULL]
    /\ prev = [p \in Pages |-> NULL]
    /\ superblock = [k \in 0..max_data_units |-> NULL]
    /\ num_bm_pages = 1
    /\ blocks_allocated = 0
    /\ lock = NULL
    /\ terminated = FALSE
    /\ blocks = << >>
    /\ last = NoCall
    /\ pc = [t \in Threads |-> "idle"]
    /\ loc = [t \in Threads |-> NoLoc]
    /\ std = [live |-> {}, blocks_allocated |-> 0, held |-> {}, last |-> NoCall,
              dead |-> FALSE]
    /\ mem = NoMem
    /\ dbg = NoDbg
    /\ event = NoEvent

InitBits == ScanInit(HeaderBitmaps)

\* Block sizes in units: every size that fits the data area and one that
\* does not.
MaxBlockSize == max_data_units + 1

FindFreeBlock ==
    /\ \E block_size \in 1..MaxBlockSize :
         last' = [op |-> "find_free_block", block_size |-> block_size,
                  offset |-> find_free_block(bitmap[1], block_size)]
    /\ UNCHANGED << kind, bitmap, list, next, prev, superblock, num_bm_pages,
                    blocks_allocated, lock, terminated, blocks, pc, loc, std,
                    mem, dbg, event >>

FindLongestFreeBlock ==
    /\ last' = [op |-> "find_longest_free_block",
                lfb |-> find_longest_free_block(bitmap[1])]
    /\ UNCHANGED << kind, bitmap, list, next, prev, superblock, num_bm_pages,
                    blocks_allocated, lock, terminated, blocks, pc, loc, std,
                    mem, dbg, event >>

NextBits ==
    \/ FindFreeBlock
    \/ FindLongestFreeBlock

SpecBits == InitBits /\ [][NextBits]_vars

\* n zero bits begin at offset o and end inside the bitmap.
FreeRunAt(bm, o, n) ==
    /\ o + n <= units_per_page
    /\ \A i \in o..(o + n - 1) : bm[i] = 0

\* The offsets of the data area where n zero bits begin.
FreeRuns(bm, n) ==
    { o \in bm_page_header_size_in_units..(units_per_page - 1) : FreeRunAt(bm, o, n) }

\* The bitmap of a fresh page after n allocations of one unit.
FirstUnitsTaken(n) ==
    [i \in Slots |-> IF i < bm_page_header_size_in_units + n THEN 1 ELSE 0]

\* C28: find_free_block(page, n) returns the lowest offset of the data area
\* where n zero bits begin and end inside the bitmap, and 0 when there is
\* none; on a page whose first n data units are taken and no other, the
\* next unit handed out is header_units + n and the longest free block
\* after it is max_data_units - (n + 1).
C28_FirstFit ==
    /\ last.op = "find_free_block" =>
         LET runs == FreeRuns(bitmap[1], last.block_size)
         IN  /\ (last.offset = 0) <=> (runs = {})
             /\ runs # {} =>
                  /\ last.offset \in runs
                  /\ \A o \in runs : last.offset <= o
    /\ \A n \in 0..(max_data_units - 1) :
         bitmap[1] = FirstUnitsTaken(n) =>
           /\ find_free_block(bitmap[1], 1) = bm_page_header_size_in_units + n
           /\ find_longest_free_block(set_bits(bitmap[1], find_free_block(bitmap[1], 1), 1))
                = max_data_units - (n + 1)

\* A block of two units was found behind a used unit and a free run too
\* short for it.
C28_Witness ==
    /\ last.op = "find_free_block"
    /\ last.block_size = 2
    /\ last.offset > bm_page_header_size_in_units + 2
    /\ bitmap[1][bm_page_header_size_in_units] = 0

\* C29: find_longest_free_block(page) returns the length of the longest
\* run of zero bits of the data area: 0 when every unit is used,
\* max_data_units when none is.
C29_Longest ==
    last.op = "find_longest_free_block" =>
        /\ last.lfb \in 0..max_data_units
        /\ last.lfb = 0 \/ FreeRuns(bitmap[1], last.lfb) # {}
        /\ \A n \in (last.lfb + 1)..max_data_units : FreeRuns(bitmap[1], n) = {}

\* The longest run is not the first one.
C29_Witness ==
    /\ last.op = "find_longest_free_block"
    /\ last.lfb >= 2
    /\ bitmap[1][bm_page_header_size_in_units] = 0
    /\ ~FreeRunAt(bitmap[1], bm_page_header_size_in_units, last.lfb)

C31_NewZones ==
    [][(/\ dbg'.last.op = "reallocate"
        /\ dbg'.last.ret
        /\ ~dbg'.last.damaged)
       => \A s \in DbgSlots :
            (dbg.region[s].addr = NULL /\ dbg'.region[s].addr # NULL) =>
              /\ ~Damaged(dbg'.region[s])
              /\ ~dbg_release(dbg', s).dead]_vars

\* ---------------------------------------------------------------- events
\* Threads calling set_event, clear_event and wait_event on one Event.  A
\* thread takes one step for each access to the flag, the mutex or the
\* condition variable.

\* The variables of the allocators.
event_frame == << kind, bitmap, list, next, prev, superblock, num_bm_pages,
                  blocks_allocated, lock, terminated, blocks, last, pc, loc,
                  std, mem, dbg >>

\* set_event: event->flag = true.  With once, the call is made one time.
EvSetFlag(t, once) ==
    /\ event.pc[t] = "idle"
    /\ once => event.sets = 0
    /\ event' = [event EXCEPT !.flag = TRUE,
                              !.pc[t] = "cnd_broadcast",
                              !.sets = IF once THEN 1 ELSE @]
    /\ UNCHANGED event_frame

\* set_event: cnd_broadcast(&event->cond) unblocks every thread blocked on
\* the condition variable; each has the mutex to lock again.
EvBroadcast(t) ==
    /\ event.pc[t] = "cnd_broadcast"
    /\ event' = [event EXCEPT
                   !.cond = {},
                   !.pc = [w \in Threads |->
                             IF w = t THEN "idle"
                             ELSE IF w \in event.cond THEN "woken" ELSE @[w]],
                   !.status = [w \in Threads |->
                                 IF w \in event.cond THEN "thrd_success" ELSE @[w]]]
    /\ UNCHANGED event_frame

\* clear_event
EvClear(t) ==
    /\ event.pc[t] = "idle"
    /\ event' = [event EXCEPT !.flag = FALSE]
    /\ UNCHANGED event_frame

\* wait_event(event, timeout) is called; timed is timeout >= 0.0.
EvWait(t, timed) ==
    /\ event.pc[t] = "idle"
    /\ event' = [event EXCEPT !.pc[t] = "mtx_lock",
                              !.timed[t] = timed,
                              !.signalled[t] = FALSE,
                              !.status[t] = "none",
                              !.ended[t] = FALSE,
                              !.returned[t] = FALSE,
                              !.ret[t] = FALSE]
    /\ UNCHANGED event_frame

\* wait_event: mtx_lock(&event->mtx) returns.
EvLock(t) ==
    /\ event.pc[t] = "mtx_lock"
    /\ event.mtx = NULL
    /\ event' = [event EXCEPT !.mtx = t, !.pc[t] = "flag"]
    /\ UNCHANGED event_frame

\* wait_event: bool signalled = event->flag; if (signalled) ...
EvCheck(t) ==
    /\ event.pc[t] = "flag"
    /\ event' = [event EXCEPT
                   !.signalled[t] = event.flag,
                   !.ended[t] = event.flag,
                   !.pc[t] = IF event.flag THEN "mtx_unlock" ELSE "cnd_wait"]
    /\ UNCHANGED event_frame

\* wait_event: cnd_wait or cnd_timedwait frees the mutex and blocks.
EvBlock(t) ==
    /\ event.pc[t] = "cnd_wait"
    /\ event' = [event EXCEPT !.mtx = NULL,
                              !.cond = @ \cup {t},
                              !.pc[t] = "blocked"]
    /\ UNCHANGED event_frame

\* A blocked thread is unblocked without a signal, as the condition wait
\* may be.
EvSpurious(t) ==
    /\ event.pc[t] = "blocked"
    /\ event' = [event EXCEPT !.cond = @ \ {t},
                              !.pc[t] = "woken",
                              !.status[t] = "thrd_success"]
    /\ UNCHANGED event_frame

\* The time point of cnd_timedwait is reached.
EvTimedOut(t) ==
    /\ event.pc[t] = "blocked"
    /\ event.timed[t]
    /\ event' = [event EXCEPT !.cond = @ \ {t},
                              !.pc[t] = "woken",
                              !.status[t] = "thrd_timedout"]
    /\ UNCHANGED event_frame

\* wait_event: the condition wait locks the mutex again and returns; after
\* cnd_timedwait signalled is set from its result, after cnd_wait it is
\* left as it was.
EvWoken(t) ==
    /\ event.pc[t] = "woken"
    /\ event.mtx = NULL
    /\ event' = [event EXCEPT
                   !.mtx = t,
                   !.signalled[t] = IF event.timed[t]
                                      THEN event.status[t] # "thrd_timedout"
                                      ELSE @,
                   !.ended[t] = event.flag,
                   !.pc[t] = "mtx_unlock"]
    /\ UNCHANGED event_frame

\* wait_event: mtx_unlock(&event->mtx); return signalled;
EvReturn(t) ==
    /\ event.pc[t] = "mtx_unlock"
    /\ event' = [event EXCEPT !.mtx = NULL,
                              !.returned[t] = TRUE,
                              !.ret[t] = event.signalled[t],
                              !.pc[t] = "idle"]
    /\ UNCHANGED event_frame

\* The steps inside wait_event and set_event.
EvStep(t) ==
    \/ EvBroadcast(t)
    \/ EvLock(t)
    \/ EvCheck(t)
    \/ EvBlock(t)
    \/ EvWoken(t)
    \/ EvReturn(t)

NextEvent ==
    \E t \in Threads :
      \/ EvSetFlag(t, FALSE)
      \/ EvClear(t)
      \/ \E timed \in BOOLEAN : EvWait(t, timed)
      \/ EvStep(t)
      \/ EvSpurious(t)
      \/ EvTimedOut(t)

SpecEvent == Init /\ [][NextEvent]_vars

\* C32 (as stated).  wait_event returns true exactly when the flag was set
\* as its wait was over.
C32_ReturnValue ==
    \A t \in Threads :
      event.returned[t] => (event.ret[t] <=> event.ended[t])

\* ---------------------------------------------------------------- C33
\* The same threads with set_event called once and clear_event never.
NextEventOnce ==
    \E t \in Threads :
      \/ EvSetFlag(t, TRUE)
      \/ \E timed \in BOOLEAN : EvWait(t, timed)
      \/ EvStep(t)
      \/ EvSpurious(t)
      \/ EvTimedOut(t)

\* Every thread goes on with the call it is in: a statement that can be
\* executed is executed, mtx_lock returns to a thread for which the mutex
\* is free again and again, and the time point of a timed wait comes.
\* Nothing makes a thread call, and nothing unblocks a thread that no
\* broadcast has reached.
EvFair ==
    \A t \in Threads :
      /\ WF_vars(EvBroadcast(t))
      /\ SF_vars(EvLock(t))
      /\ WF_vars(EvCheck(t))
      /\ WF_vars(EvBlock(t))
      /\ SF_vars(EvWoken(t))
      /\ WF_vars(EvReturn(t))
      /\ WF_vars(EvTimedOut(t))

SpecEventOnce == Init /\ [][NextEventOnce]_vars /\ EvFair

\* The positions of a thread inside wait_event.
EvWaiting == {"mtx_lock", "flag", "cnd_wait", "blocked", "woken", "mtx_unlock"}

\* C33 (as stated).  Once set_event has been called, a thread that is in
\* wait_event with a negative timeout returns.
C33_NoLostWakeup ==
    \A t \in Threads :
      (event.sets = 1 /\ event.pc[t] \in EvWaiting /\ ~event.timed[t])
        ~> (event.pc[t] = "idle")

\* ---------------------------------------------------------------- C34
\* count_zero_bits and count_nonzero_bits on every bitmap, from every
\* offset, with every limit up to the page size and with UINT_MAX.

InitCount == ScanInit([Slots -> {0, 1}])

Limits == 0..units_per_page \cup {UINT_MAX}

CountZeroBits ==
    /\ \E offset \in Slots, limit \in Limits :
         last' = [op |-> "count_zero_bits", offset |-> offset, limit |-> limit,
                  count |-> count_zero_bits(bitmap[1], offset, limit)]
    /\ UNCHANGED << kind, bitmap, list, next, prev, superblock, num_bm_pages,
                    blocks_allocated, lock, terminated, blocks, pc, loc, std,
                    mem, dbg, event >>

CountNonzeroBits ==
    /\ \E offset \in Slots, limit \in Limits :
         last' = [op |-> "count_nonzero_bits", offset |-> offset, limit |-> limit,
                  count |-> count_nonzero_bits(bitmap[1], offset, limit)]
    /\ UNCHANGED << kind, bitmap, list, next, prev, superblock, num_bm_pages,
                    blocks_allocated, lock, terminated, blocks, pc, loc, std,
                    mem, dbg, event >>

NextCount ==
    \/ CountZeroBits
    \/ CountNonzeroBits

SpecCount == InitCount /\ [][NextCount]_vars

\* The number of consecutive bits equal to v from offset to the end of the
\* bitmap.
RunLength(bm, offset, v) ==
    CHOOSE n \in 0..(units_per_page - offset) :
      /\ \A i \in offset..(offset + n - 1) : bm[i] = v
      /\ offset + n < units_per_page => bm[offset + n] # v

\* C34: with L the number of consecutive 0-bits (for count_nonzero_bits,
\* 1-bits) from offset to the end of the bitmap, the count returned is L
\* when L is below the limit and otherwise at least the limit and at most
\* L; it never exceeds units_per_page - offset.
C34_Counts ==
    last.op \in {"count_zero_bits", "count_nonzero_bits"} =>
        LET L == RunLength(bitmap[1], last.offset,
                           IF last.op = "count_zero_bits" THEN 0 ELSE 1)
        IN  /\ L < last.limit => last.count = L
            /\ L >= last.limit => (last.limit <= last.count /\ last.count <= L)
            /\ last.count <= units_per_page - last.offset

\* A count of 1-bits from an offset inside a word went over the word
\* boundary, passed the limit, and stopped at a 0-bit before the end of the
\* bitmap.
C34_Witness ==
    /\ last.op = "count_nonzero_bits"
    /\ last.offset % WORD_WIDTH # 0
    /\ last.count > WORD_WIDTH - (last.offset % WORD_WIDTH)
    /\ last.count > last.limit
    /\ last.offset + last.count < units_per_page

====
